---- MODULE Spec2Model ----
(***************************************************************************)
(* The experience-memory subsystem of trading-gpt: the MemoryManager store *)
(* (package memory), its Markdown parser and serializer, and the callers   *)
(* that use one store concurrently.                                        *)
(*                                                                         *)
(* Text is modelled as a sequence of tokens.  A token is one character     *)
(* ("a", " ", "\n", ","), or one of the fixed strings of the file format   *)
(* taken as a unit (the block marker "## 记忆 ", a metadata label such as  *)
(* "- **ID**:").  Every string function of the code (Split, TrimSpace,     *)
(* HasPrefix, Join, ToLower, Contains, Sprintf %d, Sscanf %d, time.Format, *)
(* time.Parse) is computed on these sequences.                             *)
(***************************************************************************)
EXTENDS Integers, Sequences, FiniteSets, TLC

VARIABLES
    fs,           \* the file system: the directory and the backing artifact
    memories,     \* MemoryManager.memories
    initialized,  \* MemoryManager.initialized
    mutex,        \* MemoryManager.mutex (sync.RWMutex)
    heap,         \* backing arrays of the []string values (Memory.Tags)
    uuids,        \* number of identifiers uuid.New() has produced
    pc,           \* where each caller is
    frame,        \* the arguments and locals of each caller's current call
    ret,          \* what each caller's last call returned
    calls,        \* number of calls started
    mutations,    \* number of writes callers made through a []string they hold
    rtPc,         \* round trip: position
    rtIn,         \* round trip: the records serialized
    rtOut,        \* round trip: the records parsed back
    doc,          \* parsing: the blocks of the document handed to the parser
    parseRet,     \* parsing: what the parser returned
    clock,        \* the wall clock time.Now() reads, in minutes
    trigger,      \* the trigger under evaluation: its variant and its fields
    tpc,          \* where each caller of the trigger is
    tframe,       \* the locals of each caller's ShouldTrigger
    evals,        \* the ShouldTrigger evaluations that returned, oldest first
    tret,         \* what the last GetReflectionPrompt or GetTriggerType returned
    rrPc,         \* MemoryRetriever: where RetrieveRelevantMemories is
    rrFrame,      \* MemoryRetriever: arguments and locals of the call
    rrRet,        \* MemoryRetriever: what the last call returned
    llmLog,       \* the requests the text-completion capability received
    ent,          \* ExchangeEntity: the kline window, the position and its market
    exPc,         \* ExchangeEntity: where HandleCommand is
    exFrame,      \* ExchangeEntity: arguments and locals of the call
    exRet,        \* ExchangeEntity: what the last HandleCommand returned
    orders        \* the order forms the order executor received, oldest first

storeVars == <<fs, memories, initialized, mutex, heap, uuids, pc, frame, ret, calls, mutations>>
rtVars == <<rtPc, rtIn, rtOut, doc, parseRet>>
trigVars == <<clock, trigger, tpc, tframe, evals, tret>>
rrVars == <<rrPc, rrFrame, rrRet, llmLog>>
exVars == <<ent, exPc, exFrame, exRet, orders>>
vars == <<storeVars, rtVars, trigVars, rrVars, exVars>>

----------------------------------------------------------------------------
(* Tokens of the durable text format. *)

NL == "\n"
SP == " "
COMMA == ","
\* "# Trading-GPT 记忆"
Header == "# Trading-GPT MEMORY"
\* "## 记忆 "
SectionMarker == "## MEMORY "
LabelID == "- **ID**:"
\* "- **标题**:"
LabelTitle == "- **TITLE**:"
\* "- **标签**:"
LabelTags == "- **TAGS**:"
\* "- **创建时间**:"
LabelCreatedAt == "- **CREATED**:"
\* "- **来源**:"
LabelSource == "- **SOURCE**:"
\* "- **重要性**:"
LabelImportance == "- **IMPORTANCE**:"
\* the framing of a "2006-01-02 15:04:05" timestamp; the digits after it are
\* the wall-clock reading in seconds
Stamp == "@"

DigitChars == <<"0", "1", "2", "3", "4", "5", "6", "7", "8", "9">>

IsSpace(c) == c \in {SP, NL}

IsDigit(c) == \E d \in 1..10 : DigitChars[d] = c

DigitVal(c) == (CHOOSE d \in 1..10 : DigitChars[d] = c) - 1

----------------------------------------------------------------------------
(* package strings, fmt *)

RECURSIVE TrimLeft(_)
TrimLeft(s) == IF s # <<>> /\ IsSpace(Head(s)) THEN TrimLeft(Tail(s)) ELSE s

RECURSIVE TrimRight(_)
TrimRight(s) ==
    IF s # <<>> /\ IsSpace(s[Len(s)]) THEN TrimRight(SubSeq(s, 1, Len(s) - 1)) ELSE s

TrimSpace(s) == TrimRight(TrimLeft(s))

HasPrefix(s, label) == s # <<>> /\ s[1] = label

TrimPrefix(s, label) == IF HasPrefix(s, label) THEN Tail(s) ELSE s

\* strings.Split with a one-token separator: always at least one part
RECURSIVE Split(_, _)
Split(s, sep) ==
    IF \A i \in 1..Len(s) : s[i] # sep
    THEN <<s>>
    ELSE LET k == CHOOSE i \in 1..Len(s) :
                      s[i] = sep /\ \A j \in 1..(i - 1) : s[j] # sep
         IN <<SubSeq(s, 1, k - 1)>> \o Split(SubSeq(s, k + 1, Len(s)), sep)

RECURSIVE Join(_, _)
Join(parts, sep) ==
    IF parts = <<>> THEN <<>>
    ELSE IF Len(parts) = 1 THEN parts[1]
    ELSE parts[1] \o sep \o Join(Tail(parts), sep)

ToLowerChar(c) == IF c = "A" THEN "a" ELSE IF c = "B" THEN "b" ELSE c

ToLower(s) == [i \in 1..Len(s) |-> ToLowerChar(s[i])]

Contains(s, sub) ==
    \E i \in 0..(Len(s) - Len(sub)) : SubSeq(s, i + 1, i + Len(sub)) = sub

\* fmt.Sprintf("%d", n)
RECURSIVE Itoa(_)
Itoa(n) ==
    IF n < 0 THEN <<"-">> \o Itoa(-n)
    ELSE IF n < 10 THEN <<DigitChars[n + 1]>>
    ELSE Itoa(n \div 10) \o <<DigitChars[(n % 10) + 1]>>

RECURSIVE DigitRun(_)
DigitRun(s) ==
    IF s # <<>> /\ IsDigit(Head(s)) THEN <<Head(s)>> \o DigitRun(Tail(s)) ELSE <<>>

RECURSIVE Atoi(_)
Atoi(ds) == IF ds = <<>> THEN 0 ELSE 10 * Atoi(SubSeq(ds, 1, Len(ds) - 1)) + DigitVal(ds[Len(ds)])

\* fmt.Sscanf(s, "%d", &v): leading space skipped, an optional sign, then the
\* longest run of digits; with no digit the scan fails and v keeps `old`
Sscanf(s, old) ==
    LET t == TrimLeft(s)
        signed == t # <<>> /\ t[1] \in {"+", "-"}
        ds == DigitRun(IF signed THEN Tail(t) ELSE t)
    IN IF ds = <<>> THEN old
       ELSE IF signed /\ t[1] = "-" THEN -Atoi(ds) ELSE Atoi(ds)

----------------------------------------------------------------------------
(* package time.  A time.Time is its instant in whole seconds (unix), whether *)
(* it has a sub-second part (nsec), and its location's offset from UTC (off). *)

ZeroTime == [unix |-> 0, nsec |-> 0, off |-> 0]

\* t.Format("2006-01-02 15:04:05"): the wall clock of t's location, to the second
FormatTime(t) == <<Stamp>> \o Itoa(t.unix + t.off)

\* t.Format(time.RFC3339): the wall clock followed by Z or the offset
FormatRFC3339(t) ==
    <<Stamp>> \o Itoa(t.unix + t.off) \o (IF t.off = 0 THEN <<"Z">> ELSE <<"+">> \o Itoa(t.off))

AllDigits(s) == s # <<>> /\ \A i \in 1..Len(s) : IsDigit(s[i])

\* time.Parse("2006-01-02 15:04:05", s): no zone in the layout, so the wall
\* clock is read as UTC
ParseLayout(s) ==
    IF HasPrefix(s, Stamp) /\ AllDigits(Tail(s))
    THEN [ok |-> TRUE, t |-> [unix |-> Atoi(Tail(s)), nsec |-> 0, off |-> 0]]
    ELSE [ok |-> FALSE, t |-> ZeroTime]

\* time.Parse(time.RFC3339, s)
ParseRFC3339(s) ==
    LET ds == IF HasPrefix(s, Stamp) THEN DigitRun(Tail(s)) ELSE <<>>
        zone == IF HasPrefix(s, Stamp) THEN SubSeq(s, Len(ds) + 2, Len(s)) ELSE <<>>
    IN IF ds # <<>> /\ zone = <<"Z">>
       THEN [ok |-> TRUE, t |-> [unix |-> Atoi(ds), nsec |-> 0, off |-> 0]]
       ELSE IF ds # <<>> /\ HasPrefix(zone, "+") /\ AllDigits(Tail(zone))
       THEN [ok |-> TRUE,
             t |-> [unix |-> Atoi(ds) - Atoi(Tail(zone)), nsec |-> 0, off |-> Atoi(Tail(zone))]]
       ELSE [ok |-> FALSE, t |-> ZeroTime]

----------------------------------------------------------------------------
(* type Memory, with Tags by value *)

ZeroMemory ==
    [ID |-> <<>>, Title |-> <<>>, Content |-> <<>>, Tags |-> <<>>,
     CreatedAt |-> ZeroTime, Source |-> <<>>, Importance |-> 0]

\* uuid.New().String() for the n-th identifier generated
NewUUID(n) == <<"uuid-">> \o Itoa(n)

----------------------------------------------------------------------------
(* generateMemoriesMarkdown *)

zeroBased(i) == i - 1

\* the ordinal of the i-th block: i+1 for the loop index, counted from 0
ordinal(i) == i

generateBlock(i, memory) ==
    <<SectionMarker>> \o Itoa(ordinal(i)) \o <<NL>>
    \o <<LabelID, SP>> \o memory.ID \o <<NL>>
    \o <<LabelTitle, SP>> \o memory.Title \o <<NL>>
    \o <<LabelTags, SP>> \o Join(memory.Tags, <<COMMA, SP>>) \o <<NL>>
    \o <<LabelCreatedAt, SP>> \o FormatTime(memory.CreatedAt) \o <<NL>>
    \o <<LabelSource, SP>> \o memory.Source \o <<NL>>
    \o <<LabelImportance, SP>> \o Itoa(memory.Importance) \o <<NL, NL>>
    \o memory.Content
    \o <<NL, NL>>

RECURSIVE generateBlocks(_, _)
generateBlocks(mems, i) ==
    IF i > Len(mems) THEN <<>>
    ELSE generateBlock(i, mems[i]) \o generateBlocks(mems, i + 1)

generateMemoriesMarkdown(mems) == <<Header, NL, NL>> \o generateBlocks(mems, 1)

----------------------------------------------------------------------------
(* parseMemoriesFromMarkdown *)

\* the tags of a "- **标签**:" line: split at commas, each part trimmed
RECURSIVE TrimEach(_)
TrimEach(parts) ==
    IF parts = <<>> THEN <<>> ELSE <<TrimSpace(Head(parts))>> \o TrimEach(Tail(parts))

parseTags(tagStr) == TrimEach(Split(tagStr, COMMA))

zeroOnBadTime(timeStr, now) ==
    IF ParseLayout(timeStr).ok THEN ParseLayout(timeStr).t ELSE ZeroTime

\* the creation time of a "- **创建时间**:" line: the layout, else RFC3339,
\* else the current time
parseCreatedAt(timeStr, now) ==
    IF ParseLayout(timeStr).ok THEN ParseLayout(timeStr).t
    ELSE IF ParseRFC3339(timeStr).ok THEN ParseRFC3339(timeStr).t
    ELSE now

\* one trimmed, non-blank line of the metadata region
parseLine(memory, line, now) ==
    IF HasPrefix(line, LabelID)
    THEN [memory EXCEPT !.ID = TrimSpace(TrimPrefix(line, LabelID))]
    ELSE IF HasPrefix(line, LabelTitle)
    THEN [memory EXCEPT !.Title = TrimSpace(TrimPrefix(line, LabelTitle))]
    ELSE IF HasPrefix(line, LabelTags)
    THEN [memory EXCEPT !.Tags = parseTags(TrimSpace(TrimPrefix(line, LabelTags)))]
    ELSE IF HasPrefix(line, LabelCreatedAt)
    THEN [memory EXCEPT
             !.CreatedAt = parseCreatedAt(TrimSpace(TrimPrefix(line, LabelCreatedAt)), now)]
    ELSE IF HasPrefix(line, LabelSource)
    THEN [memory EXCEPT !.Source = TrimSpace(TrimPrefix(line, LabelSource))]
    ELSE IF HasPrefix(line, LabelImportance)
    THEN [memory EXCEPT
             !.Importance = Sscanf(TrimSpace(TrimPrefix(line, LabelImportance)), memory.Importance)]
    ELSE memory

RECURSIVE parseEveryLine(_, _, _, _)
parseEveryLine(lines, j, memory, now) ==
    IF j > Len(lines) THEN [memory |-> memory, contentLines |-> <<>>]
    ELSE parseEveryLine(lines, j + 1, parseLine(memory, TrimSpace(lines[j]), now), now)

\* the loop over the lines of a block: up to the first blank line
RECURSIVE parseMetadata(_, _, _, _)
parseMetadata(lines, j, memory, now) ==
    IF j > Len(lines) THEN [memory |-> memory, contentLines |-> <<>>]
    ELSE LET line == TrimSpace(lines[j])
         IN IF line = <<>>
            THEN [memory |-> memory, contentLines |-> SubSeq(lines, j + 1, Len(lines))]
            ELSE parseMetadata(lines, j + 1, parseLine(memory, line, now), now)

MinBlockLines == 6

\* the records of sections[i..], n identifiers having been generated so far
neverTooShort(lines) == FALSE

\* len(lines) < 6
tooShort(lines) == Len(lines) < MinBlockLines

RECURSIVE parseSections(_, _, _, _)
parseSections(sections, i, n, now) ==
    IF i > Len(sections) THEN [memories |-> <<>>, uuids |-> n]
    ELSE LET lines == Split(sections[i], NL)
         IN IF tooShort(lines)
            THEN parseSections(sections, i + 1, n, now)
            ELSE LET meta == parseMetadata(lines, 1, ZeroMemory, now)
                     parsed == [meta.memory EXCEPT
                                   !.Content = TrimSpace(Join(meta.contentLines, <<NL>>))]
                     fresh == parsed.ID = <<>>
                     memory == IF fresh THEN [parsed EXCEPT !.ID = NewUUID(n + 1)] ELSE parsed
                     rest == parseSections(sections, i + 1, IF fresh THEN n + 1 ELSE n, now)
                 IN [memories |-> <<memory>> \o rest.memories, uuids |-> rest.uuids]

\* content: the document; n: identifiers generated so far; now: time.Now()
parseMemoriesFromMarkdown(content, n, now) ==
    LET sections == Split(content, SectionMarker)
        found == IF Len(sections) <= 1 THEN [memories |-> <<>>, uuids |-> n]
                 ELSE parseSections(sections, 2, n, now)
    IN [memories |-> found.memories, uuids |-> found.uuids, err |-> "nil"]

----------------------------------------------------------------------------
(* The store.  A record of m.memories holds its Tags as the address of a    *)
(* backing array in `heap` (0: a nil or empty slice), because Go copies a   *)
(* Memory without copying the array its Tags slice points to.               *)

Procs == {1, 2}

MaxCalls == 3
MaxMutations == 1

Deref(h, memory) ==
    [memory EXCEPT !.Tags = IF memory.Tags = 0 THEN <<>> ELSE h[memory.Tags]]

DerefAll(h, mems) == [i \in 1..Len(mems) |-> Deref(h, mems[i])]

\* the addresses given to a sequence of tag lists allocated after h
RECURSIVE AllocAddrs(_, _)
AllocAddrs(n, tagLists) ==
    IF tagLists = <<>> THEN <<>>
    ELSE IF Head(tagLists) = <<>> THEN <<0>> \o AllocAddrs(n, Tail(tagLists))
    ELSE <<n + 1>> \o AllocAddrs(n + 1, Tail(tagLists))

NonEmpty(tagLists) == SelectSeq(tagLists, LAMBDA t : t # <<>>)

\* parsed records (Tags by value) placed in memory: the records by reference,
\* and the heap with their arrays
Allocate(h, parsed) ==
    LET tagLists == [i \in 1..Len(parsed) |-> parsed[i].Tags]
        addrs == AllocAddrs(Len(h), tagLists)
    IN [memories |-> [i \in 1..Len(parsed) |-> [parsed[i] EXCEPT !.Tags = addrs[i]]],
        heap |-> h \o NonEmpty(tagLists)]

ZeroRef == [ZeroMemory EXCEPT !.Tags = 0]

NoArgs ==
    [title |-> <<>>, content |-> <<>>, tags |-> 0, tagsVal |-> <<>>, source |-> <<>>,
     importance |-> 0, now |-> ZeroTime, query |-> <<>>, qtags |-> <<>>, limit |-> 0]

NoFrame ==
    [op |-> "none", args |-> NoArgs, pre |-> <<>>, wasInit |-> FALSE, nested |-> FALSE,
     memory |-> ZeroRef]

\* op, err, val: the call and its results.  The rest records the moment of the
\* return: the arguments, the collection when the lock was taken (pre) and at
\* the return (post), the returned records and the collection with their tags
\* read through the heap (view, postView), the record AddMemory built, the
\* artifact's content, and the identifiers whose first save had not finished
NoRet ==
    [op |-> "none", err |-> "nil", val |-> <<>>, args |-> NoArgs, pre |-> <<>>,
     post |-> <<>>, view |-> <<>>, postView |-> <<>>, memory |-> ZeroRef,
     wasInit |-> FALSE, inflight |-> {}, data |-> <<>>]

ErrNotInitialized == "memory manager not initialized"

\* sync.RWMutex: Lock waits for no writer and no reader, RLock for no writer
CanLock == mutex.writers = {} /\ mutex.readers = {}

RLockNeverWaits == TRUE

CanRLock == mutex.writers = {}

Unlock(p) == [mutex EXCEPT !.writers = @ \ {p}]

RUnlock(p) == [mutex EXCEPT !.readers = @ \ {p}]

\* what a call hands back to its caller, with the store as it is at that moment
Return(p, err, val) ==
    [op |-> frame[p].op, err |-> err, val |-> val, args |-> frame[p].args,
     pre |-> frame[p].pre, post |-> memories', view |-> DerefAll(heap', val),
     postView |-> DerefAll(heap', memories'), memory |-> frame[p].memory,
     wasInit |-> frame[p].wasInit,
     inflight |-> {frame[q].memory.ID :
                      q \in {r \in Procs \ {p} : pc[r] = "saveMemoriesToFile@AddMemory"}},
     data |-> fs'.data]

----------------------------------------------------------------------------
(* saveMemoriesToFile: every outcome of the directory check and the write *)

SaveOutcomes(h, mems, f) ==
    LET content == generateMemoriesMarkdown(DerefAll(h, mems))
    IN {[err |-> "nil", fs |-> [dir |-> TRUE, file |-> TRUE, data |-> content]]}
       \cup (IF f.dir THEN {}
             ELSE {[err |-> "failed to create memory directory", fs |-> f]})
       \cup {[err |-> "failed to write memory file", fs |-> [f EXCEPT !.dir = TRUE]],
             [err |-> "failed to write memory file",
              fs |-> [dir |-> TRUE, file |-> TRUE, data |-> <<>>]]}

\* loadMemoriesFromFile on a readable file: an empty file is an empty list
loadMemoriesFromFile(h, n, data, now) ==
    IF data = <<>> THEN [memories |-> <<>>, heap |-> h, uuids |-> n]
    ELSE LET parsed == parseMemoriesFromMarkdown(data, n, now)
             placed == Allocate(h, parsed.memories)
         IN [memories |-> placed.memories, heap |-> placed.heap, uuids |-> parsed.uuids]

----------------------------------------------------------------------------
(* RetrieveMemories: the filter *)

matchQueryCaseSensitive(memory, query) ==
    ~(/\ query # <<>>
      /\ ~Contains(memory.Title, query)
      /\ ~Contains(memory.Content, query))

matchQuery(memory, query) ==
    ~(/\ query # <<>>
      /\ ~Contains(ToLower(memory.Title), ToLower(query))
      /\ ~Contains(ToLower(memory.Content), ToLower(query)))

matchTags(memory, tags) ==
    Len(tags) > 0 =>
        \E i \in 1..Len(tags) : \E j \in 1..Len(memory.Tags) :
            ToLower(tags[i]) = ToLower(memory.Tags[j])

RECURSIVE filterMemories(_, _, _, _)
filterMemories(h, mems, query, tags) ==
    IF mems = <<>> THEN <<>>
    ELSE LET memory == Deref(h, Head(mems))
             rest == filterMemories(h, Tail(mems), query, tags)
         IN IF matchQuery(memory, query) /\ matchTags(memory, tags)
            THEN <<Head(mems)>> \o rest
            ELSE rest

noTruncate(results, limit) == results

truncate(results, limit) ==
    IF limit > 0 /\ Len(results) > limit THEN SubSeq(results, 1, limit) ELSE results

retrieve(h, mems, query, tags, limit) ==
    IF query = <<>> /\ Len(tags) = 0 THEN mems
    ELSE truncate(filterMemories(h, mems, query, tags), limit)

----------------------------------------------------------------------------
(* The inputs the callers and the environment supply *)

\* time.Now(): a local time with a sub-second part
NowValues == {[unix |-> 7, nsec |-> 1, off |-> 1]}

AddInputs ==
    {[title |-> <<"A">>, content |-> <<"a", NL, "b">>, tagsVal |-> <<<<"a">>, <<"B">>>>,
      source |-> <<"s">>, importance |-> 5],
     [title |-> <<SectionMarker>>, content |-> <<>>, tagsVal |-> <<>>,
      source |-> <<"m">>, importance |-> 10]}

RetrieveInputs ==
    {[query |-> <<"a">>, qtags |-> <<>>, limit |-> 0],
     [query |-> <<>>, qtags |-> <<<<"b">>>>, limit |-> 0],
     [query |-> <<"B">>, qtags |-> <<<<"z">>, <<"A">>>>, limit |-> 0],
     [query |-> <<>>, qtags |-> <<>>, limit |-> 1],
     [query |-> <<>>, qtags |-> <<<<"A">>, <<"b">>>>, limit |-> 1],
     [query |-> <<"b">>, qtags |-> <<>>, limit |-> -1]}

\* what a caller writes into an element of a []string it holds
MutatedTag == <<"z">>

\* records of artifacts that exist before the store is constructed
Saved1 ==
    [ID |-> <<"x">>, Title |-> <<"a", SP, "b">>, Content |-> <<"B">>, Tags |-> <<<<"b">>>>,
     CreatedAt |-> [unix |-> 3, nsec |-> 0, off |-> 0], Source |-> <<"s">>, Importance |-> 3]

Saved2 == [Saved1 EXCEPT !.Title = <<"c">>, !.Content = <<>>, !.Tags = <<<<"a">>>>]

InitialDocs ==
    {<<>>,
     generateMemoriesMarkdown(<<>>),
     generateMemoriesMarkdown(<<Saved1>>),
     \* edited by hand: two blocks carry the same identifier
     generateMemoriesMarkdown(<<Saved1, Saved2>>)}

InitialFS ==
    {[dir |-> FALSE, file |-> FALSE, data |-> <<>>],
     [dir |-> TRUE, file |-> FALSE, data |-> <<>>]}
    \cup {[dir |-> TRUE, file |-> TRUE, data |-> d] : d \in InitialDocs}

----------------------------------------------------------------------------
(* NewMemoryManager *)

StoreInit ==
    /\ fs \in InitialFS
    /\ memories = <<>>
    /\ initialized = FALSE
    /\ mutex = [writers |-> {}, readers |-> {}]
    /\ heap = <<>>
    /\ uuids = 0
    /\ pc = [p \in Procs |-> "idle"]
    /\ frame = [p \in Procs |-> NoFrame]
    /\ ret = [p \in Procs |-> NoRet]
    /\ calls = 0
    /\ mutations = 0

NoParsed ==
    [done |-> FALSE, whole |-> <<>>, err |-> "nil", others |-> <<>>, saved |-> <<>>]

ParseOff == doc = <<>> /\ parseRet = NoParsed

RtOff == rtPc = "off" /\ rtIn = <<>> /\ rtOut = <<>> /\ ParseOff

NoTrigger == [kind |-> "none", interval |-> 0, lastTime |-> 0, prompt |-> <<>>]

NoEval == [now |-> 0, last |-> 0]

NoPrompt == [op |-> "none", val |-> <<>>, err |-> "nil"]

\* no trigger is constructed
TrigOff ==
    /\ clock = 0
    /\ trigger = NoTrigger
    /\ tpc = <<>>
    /\ tframe = <<>>
    /\ evals = <<>>
    /\ tret = NoPrompt

NoResponse == [kind |-> "none", text |-> <<>>]

\* situation, maxResults: the arguments; memories: the snapshot GetAllMemories
\* returned, view: the same with the tags read through the heap; sent: the
\* requests this call has made to the text-completion capability
\* cancelled: the caller's context was cancelled during the completion call
NoRelevantFrame ==
    [situation |-> <<>>, maxResults |-> 0, memories |-> <<>>, view |-> <<>>, sent |-> <<>>,
     cancelled |-> FALSE]

\* err, val: the results.  The rest records the call: whether the store fetch
\* succeeded, the arguments, the snapshot, the requests made, the response
\* received, the scores evaluateRelevance returned, and the store's collection
\* at the return
NoRelevantRet ==
    [done |-> FALSE, err |-> "nil", val |-> <<>>, fetched |-> FALSE,
     situation |-> <<>>, maxResults |-> 0, memories |-> <<>>, view |-> <<>>,
     sent |-> <<>>, resp |-> NoResponse, scores |-> <<>>, cancelled |-> FALSE,
     current |-> <<>>]

\* no retriever is constructed
RetrieverOff ==
    /\ rrPc = "off"
    /\ rrFrame = NoRelevantFrame
    /\ rrRet = NoRelevantRet
    /\ llmLog = <<>>

NoEntity == [kline |-> FALSE, side |-> "flat", base |-> 0, dust |-> TRUE, minQuantity |-> 0]

NoCommandFrame == [cmd |-> "none", args |-> "none", side |-> "none", quantity |-> 0]

NoCommandRet == [done |-> FALSE, err |-> "nil", cmd |-> "none"]

\* no exchange entity is constructed
ExchangeOff ==
    /\ ent = NoEntity
    /\ exPc = "off"
    /\ exFrame = NoCommandFrame
    /\ exRet = NoCommandRet
    /\ orders = <<>>

Init == StoreInit /\ RtOff /\ TrigOff /\ RetrieverOff /\ ExchangeOff

----------------------------------------------------------------------------
(* Initialize *)

\* if m.initialized
NotYetInitialized == FALSE

AlreadyInitialized == initialized

InitializeLock(p) ==
    /\ pc[p] = "idle" /\ calls < MaxCalls
    /\ CanLock
    /\ mutex' = [mutex EXCEPT !.writers = {p}]
    /\ pc' = [pc EXCEPT ![p] = "Initialize"]
    /\ frame' = [frame EXCEPT ![p] =
                    [NoFrame EXCEPT !.op = "Initialize", !.pre = memories,
                                    !.wasInit = initialized]]
    /\ ret' = [ret EXCEPT ![p] = NoRet]
    /\ calls' = calls + 1
    /\ UNCHANGED <<fs, memories, initialized, heap, uuids, mutations, rtVars, trigVars, rrVars, exVars>>

\* already initialized: return nil
InitializeAgain(p) ==
    /\ pc[p] = "Initialize" /\ AlreadyInitialized
    /\ UNCHANGED <<fs, memories, initialized, heap, uuids, calls, mutations, rtVars, trigVars, rrVars, exVars>>
    /\ mutex' = Unlock(p)
    /\ pc' = [pc EXCEPT ![p] = "idle"]
    /\ ret' = [ret EXCEPT ![p] = Return(p, "nil", <<>>)]
    /\ frame' = [frame EXCEPT ![p] = NoFrame]

\* the directory is missing and MkdirAll fails
InitializeMkdirFails(p) ==
    /\ pc[p] = "Initialize" /\ ~AlreadyInitialized /\ ~fs.dir
    /\ UNCHANGED <<fs, memories, initialized, heap, uuids, calls, mutations, rtVars, trigVars, rrVars, exVars>>
    /\ mutex' = Unlock(p)
    /\ pc' = [pc EXCEPT ![p] = "idle"]
    /\ ret' = [ret EXCEPT ![p] = Return(p, "failed to create memory directory", <<>>)]
    /\ frame' = [frame EXCEPT ![p] = NoFrame]

\* the artifact exists and is read
InitializeLoad(p) ==
    /\ pc[p] = "Initialize" /\ ~AlreadyInitialized /\ fs.file
    /\ \E now \in NowValues :
          LET loaded == loadMemoriesFromFile(heap, uuids, fs.data, now)
          IN /\ memories' = loaded.memories
             /\ heap' = loaded.heap
             /\ uuids' = loaded.uuids
    /\ initialized' = TRUE
    /\ UNCHANGED <<fs, calls, mutations, rtVars, trigVars, rrVars, exVars>>
    /\ mutex' = Unlock(p)
    /\ pc' = [pc EXCEPT ![p] = "idle"]
    /\ ret' = [ret EXCEPT ![p] = Return(p, "nil", <<>>)]
    /\ frame' = [frame EXCEPT ![p] = NoFrame]

\* the artifact exists and os.ReadFile fails
InitializeLoadFails(p) ==
    /\ pc[p] = "Initialize" /\ ~AlreadyInitialized /\ fs.file
    /\ UNCHANGED <<fs, memories, initialized, heap, uuids, calls, mutations, rtVars, trigVars, rrVars, exVars>>
    /\ mutex' = Unlock(p)
    /\ pc' = [pc EXCEPT ![p] = "idle"]
    /\ ret' = [ret EXCEPT ![p] = Return(p, "failed to load memories from file", <<>>)]
    /\ frame' = [frame EXCEPT ![p] = NoFrame]

\* the artifact does not exist: m.SaveMemories(ctx) is called, mutex still held
InitializeCreate(p) ==
    /\ pc[p] = "Initialize" /\ ~AlreadyInitialized /\ ~fs.file
    /\ fs' = [fs EXCEPT !.dir = TRUE]
    /\ pc' = [pc EXCEPT ![p] = "SaveMemories"]
    /\ frame' = [frame EXCEPT ![p].nested = TRUE]
    /\ UNCHANGED <<memories, initialized, mutex, heap, uuids, ret, calls, mutations, rtVars, trigVars, rrVars, exVars>>

Initialize(p) ==
    \/ InitializeLock(p)
    \/ InitializeAgain(p)
    \/ InitializeMkdirFails(p)
    \/ InitializeLoad(p)
    \/ InitializeLoadFails(p)
    \/ InitializeCreate(p)

----------------------------------------------------------------------------
(* SaveMemories *)

SaveMemoriesCall(p) ==
    /\ pc[p] = "idle" /\ calls < MaxCalls
    /\ pc' = [pc EXCEPT ![p] = "SaveMemories"]
    /\ frame' = [frame EXCEPT ![p] =
                    [NoFrame EXCEPT !.op = "SaveMemories", !.wasInit = initialized]]
    /\ ret' = [ret EXCEPT ![p] = NoRet]
    /\ calls' = calls + 1
    /\ UNCHANGED <<fs, memories, initialized, mutex, heap, uuids, mutations, rtVars, trigVars, rrVars, exVars>>

\* m.mutex.Lock() of SaveMemories, called by a caller or by Initialize
SaveMemoriesLock(p) ==
    /\ pc[p] = "SaveMemories"
    /\ CanLock
    /\ mutex' = [mutex EXCEPT !.writers = {p}]
    /\ pc' = [pc EXCEPT ![p] = "saveMemoriesToFile@SaveMemories"]
    /\ frame' = [frame EXCEPT ![p].pre = memories,
                              ![p].wasInit = IF frame[p].nested THEN @ ELSE initialized]
    /\ UNCHANGED <<fs, memories, initialized, heap, uuids, ret, calls, mutations, rtVars, trigVars, rrVars, exVars>>

\* saveMemoriesToFile and the return; inside Initialize the return continues
\* there: initialized is set when the save succeeded
SaveMemoriesSave(p) ==
    /\ pc[p] = "saveMemoriesToFile@SaveMemories"
    /\ \E out \in SaveOutcomes(heap, memories, fs) :
          /\ fs' = out.fs
          /\ initialized' = IF frame[p].nested /\ out.err = "nil" THEN TRUE ELSE initialized
          /\ UNCHANGED <<memories, heap, uuids, calls, mutations, rtVars, trigVars, rrVars, exVars>>
          /\ ret' = [ret EXCEPT ![p] =
                        Return(p, IF frame[p].nested /\ out.err # "nil"
                                  THEN "failed to create initial memory file"
                                  ELSE out.err, <<>>)]
    /\ mutex' = Unlock(p)
    /\ pc' = [pc EXCEPT ![p] = "idle"]
    /\ frame' = [frame EXCEPT ![p] = NoFrame]

SaveMemories(p) == SaveMemoriesCall(p) \/ SaveMemoriesLock(p) \/ SaveMemoriesSave(p)

----------------------------------------------------------------------------
(* AddMemory *)

prependMemory(mems, memory) == <<memory>> \o mems

onlyMemory(mems, memory) == <<memory>>

\* m.memories = append(m.memories, memory)
appendMemory(mems, memory) == Append(mems, memory)

rollBack(mems, pre) == pre

\* the collection when saveMemoriesToFile has failed: left as it is
memoriesAfterSaveError(mems, pre) == mems

\* Lock, the initialized check, the new record and the append
AddMemoryAppend(p) ==
    /\ pc[p] = "idle" /\ calls < MaxCalls
    /\ CanLock
    /\ calls' = calls + 1
    /\ \E in \in AddInputs, now \in NowValues :
          LET tags == IF in.tagsVal = <<>> THEN 0 ELSE Len(heap) + 1
              args == [NoArgs EXCEPT !.title = in.title, !.content = in.content,
                                     !.tags = tags, !.tagsVal = in.tagsVal,
                                     !.source = in.source, !.importance = in.importance,
                                     !.now = now]
              memory == [ID |-> NewUUID(uuids + 1), Title |-> in.title,
                         Content |-> in.content, Tags |-> tags, CreatedAt |-> now,
                         Source |-> in.source, Importance |-> in.importance]
              called == [NoFrame EXCEPT !.op = "AddMemory", !.args = args,
                                        !.pre = memories, !.wasInit = initialized]
          IN /\ heap' = IF tags = 0 THEN heap ELSE Append(heap, in.tagsVal)
             /\ IF ~initialized
                THEN /\ UNCHANGED <<memories, uuids, mutex, pc>>
                     /\ frame' = frame
                     /\ ret' = [ret EXCEPT ![p] =
                                   [NoRet EXCEPT !.op = "AddMemory",
                                                 !.err = ErrNotInitialized,
                                                 !.args = args, !.pre = memories,
                                                 !.post = memories, !.data = fs.data]]
                ELSE /\ memories' = appendMemory(memories, memory)
                     /\ uuids' = uuids + 1
                     /\ mutex' = [mutex EXCEPT !.writers = {p}]
                     /\ pc' = [pc EXCEPT ![p] = "saveMemoriesToFile@AddMemory"]
                     /\ frame' = [frame EXCEPT ![p] = [called EXCEPT !.memory = memory]]
                     /\ ret' = [ret EXCEPT ![p] = NoRet]
    /\ UNCHANGED <<fs, initialized, mutations, rtVars, trigVars, rrVars, exVars>>

\* saveMemoriesToFile, then the record or the error
AddMemorySave(p) ==
    /\ pc[p] = "saveMemoriesToFile@AddMemory"
    /\ \E out \in SaveOutcomes(heap, memories, fs) :
          /\ fs' = out.fs
          /\ memories' = IF out.err = "nil" THEN memories
                         ELSE memoriesAfterSaveError(memories, frame[p].pre)
          /\ UNCHANGED <<initialized, heap, uuids, calls, mutations, rtVars, trigVars, rrVars, exVars>>
          /\ ret' = [ret EXCEPT ![p] =
                        IF out.err = "nil"
                        THEN Return(p, "nil", <<frame[p].memory>>)
                        ELSE Return(p, "failed to save memory to file", <<>>)]
    /\ mutex' = Unlock(p)
    /\ pc' = [pc EXCEPT ![p] = "idle"]
    /\ frame' = [frame EXCEPT ![p] = NoFrame]

AddMemory(p) == AddMemoryAppend(p) \/ AddMemorySave(p)

----------------------------------------------------------------------------
(* GetAllMemories, RetrieveMemories *)

GetAllMemoriesRLock(p) ==
    /\ pc[p] = "idle" /\ calls < MaxCalls
    /\ CanRLock
    /\ mutex' = [mutex EXCEPT !.readers = @ \cup {p}]
    /\ pc' = [pc EXCEPT ![p] = "GetAllMemories"]
    /\ frame' = [frame EXCEPT ![p] =
                    [NoFrame EXCEPT !.op = "GetAllMemories", !.pre = memories,
                                    !.wasInit = initialized]]
    /\ ret' = [ret EXCEPT ![p] = NoRet]
    /\ calls' = calls + 1
    /\ UNCHANGED <<fs, memories, initialized, heap, uuids, mutations, rtVars, trigVars, rrVars, exVars>>

GetAllMemoriesReturn(p) ==
    /\ pc[p] = "GetAllMemories"
    /\ UNCHANGED <<fs, memories, initialized, heap, uuids, calls, mutations, rtVars, trigVars, rrVars, exVars>>
    /\ ret' = [ret EXCEPT ![p] =
                  IF ~initialized THEN Return(p, ErrNotInitialized, <<>>)
                  ELSE Return(p, "nil", memories)]
    /\ mutex' = RUnlock(p)
    /\ pc' = [pc EXCEPT ![p] = "idle"]
    /\ frame' = [frame EXCEPT ![p] = NoFrame]

GetAllMemories(p) == GetAllMemoriesRLock(p) \/ GetAllMemoriesReturn(p)

RetrieveMemoriesRLock(p) ==
    /\ pc[p] = "idle" /\ calls < MaxCalls
    /\ CanRLock
    /\ mutex' = [mutex EXCEPT !.readers = @ \cup {p}]
    /\ pc' = [pc EXCEPT ![p] = "RetrieveMemories"]
    /\ \E in \in RetrieveInputs :
          frame' = [frame EXCEPT ![p] =
                       [NoFrame EXCEPT !.op = "RetrieveMemories", !.pre = memories,
                                       !.wasInit = initialized,
                                       !.args = [NoArgs EXCEPT !.query = in.query,
                                                               !.qtags = in.qtags,
                                                               !.limit = in.limit]]]
    /\ ret' = [ret EXCEPT ![p] = NoRet]
    /\ calls' = calls + 1
    /\ UNCHANGED <<fs, memories, initialized, heap, uuids, mutations, rtVars, trigVars, rrVars, exVars>>

RetrieveMemoriesReturn(p) ==
    /\ pc[p] = "RetrieveMemories"
    /\ UNCHANGED <<fs, memories, initialized, heap, uuids, calls, mutations, rtVars, trigVars, rrVars, exVars>>
    /\ ret' = [ret EXCEPT ![p] =
                  IF ~initialized THEN Return(p, ErrNotInitialized, <<>>)
                  ELSE Return(p, "nil",
                              retrieve(heap, memories, frame[p].args.query,
                                       frame[p].args.qtags, frame[p].args.limit))]
    /\ mutex' = RUnlock(p)
    /\ pc' = [pc EXCEPT ![p] = "idle"]
    /\ frame' = [frame EXCEPT ![p] = NoFrame]

RetrieveMemories(p) == RetrieveMemoriesRLock(p) \/ RetrieveMemoriesReturn(p)

----------------------------------------------------------------------------
(* A caller writes an element of a tags slice it passed in or was handed *)

HeldAddrs(p) ==
    ({ret[p].args.tags} \cup {ret[p].val[i].Tags : i \in 1..Len(ret[p].val)}) \ {0}

CallerWritesTag(p) ==
    /\ pc[p] = "idle" /\ mutations < MaxMutations
    /\ \E a \in HeldAddrs(p) : \E i \in 1..Len(heap[a]) :
          /\ heap[a][i] # MutatedTag
          /\ heap' = [heap EXCEPT ![a] = [@ EXCEPT ![i] = MutatedTag]]
    /\ mutations' = mutations + 1
    /\ UNCHANGED <<fs, memories, initialized, mutex, uuids, pc, frame, ret, calls, rtVars, trigVars, rrVars, exVars>>

----------------------------------------------------------------------------

Next ==
    \E p \in Procs :
        \/ Initialize(p)
        \/ SaveMemories(p)
        \/ AddMemory(p)
        \/ GetAllMemories(p)
        \/ RetrieveMemories(p)
        \/ CallerWritesTag(p)

Spec == Init /\ [][Next]_vars

(***************************************************************************)
(* Concurrent AddMemory calls on one store whose file writes all succeed:  *)
(* the store is initialized by Initialize, and saveMemoriesToFile inside   *)
(* AddMemory returns nil.                                                  *)
(***************************************************************************)
AddMemorySaveSucceeds(p) == AddMemorySave(p) /\ ret'[p].err = "nil"

NextConcurrentAdds ==
    \E p \in Procs :
        \/ Initialize(p)
        \/ AddMemoryAppend(p)
        \/ AddMemorySaveSucceeds(p)

SpecConcurrentAdds == Init /\ [][NextConcurrentAdds]_vars

\* the steps by which a call that has started goes on
Continue(p) ==
    \/ InitializeAgain(p)
    \/ InitializeMkdirFails(p)
    \/ InitializeLoad(p)
    \/ InitializeLoadFails(p)
    \/ InitializeCreate(p)
    \/ SaveMemoriesLock(p)
    \/ SaveMemoriesSave(p)
    \/ AddMemorySave(p)
    \/ GetAllMemoriesReturn(p)
    \/ RetrieveMemoriesReturn(p)

----------------------------------------------------------------------------
(* The round trip parseMemoriesFromMarkdown(generateMemoriesMarkdown(records)) *)
(* on well-formed records: a non-empty identifier, a one-line title, tags     *)
(* without commas or surrounding space (possibly none), content without       *)
(* surrounding blank space (possibly empty, possibly several lines), an       *)
(* importance in 1..10.                                                       *)

MaxRecords == 2

WellFormed1 ==
    [ID |-> <<"x">>, Title |-> <<"A", SP, "b">>, Content |-> <<"a">>, Tags |-> <<<<"a">>>>,
     CreatedAt |-> [unix |-> 5, nsec |-> 0, off |-> 0], Source |-> <<"s">>, Importance |-> 1]

WellFormedRecords ==
    {WellFormed1}
    \cup {[WellFormed1 EXCEPT !.ID = <<"y">>, !.Content = c] :
             c \in {<<>>, <<"a", NL, "b">>, <<"a", NL, NL, SP, "b">>}}
    \cup {[WellFormed1 EXCEPT !.ID = <<"z">>, !.Tags = t] :
             t \in {<<>>, <<<<"b">>, <<"a">>>>}}
    \cup {[WellFormed1 EXCEPT !.ID = <<"w">>, !.Importance = 10,
                              !.CreatedAt = [unix |-> 5, nsec |-> 1, off |-> o]] :
             o \in {0, 1}}

StoreOff ==
    /\ fs = [dir |-> FALSE, file |-> FALSE, data |-> <<>>]
    /\ memories = <<>>
    /\ initialized = FALSE
    /\ mutex = [writers |-> {}, readers |-> {}]
    /\ heap = <<>>
    /\ uuids = 0
    /\ pc = [p \in Procs |-> "idle"]
    /\ frame = [p \in Procs |-> NoFrame]
    /\ ret = [p \in Procs |-> NoRet]
    /\ calls = 0
    /\ mutations = 0

InitRoundTrip ==
    /\ StoreOff /\ TrigOff /\ RetrieverOff /\ ParseOff /\ ExchangeOff
    /\ rtPc = "start"
    /\ \E n \in 1..MaxRecords : rtIn \in [1..n -> WellFormedRecords]
    /\ rtOut = <<>>

RoundTrip ==
    /\ rtPc = "start"
    /\ \E now \in NowValues :
          rtOut' = parseMemoriesFromMarkdown(generateMemoriesMarkdown(rtIn), 0, now).memories
    /\ rtPc' = "done"
    /\ UNCHANGED <<rtIn, doc, parseRet, storeVars, trigVars, rrVars, exVars>>

NextRoundTrip == RoundTrip

SpecRoundTrip == InitRoundTrip /\ [][NextRoundTrip]_vars

----------------------------------------------------------------------------
(* parseMemoriesFromMarkdown on documents written or edited by hand: blocks  *)
(* with all their lines and blocks cut short, in every order.                *)

MaxBlocks == 3

\* a second record, with its own identifier and a content of two lines
Saved3 == [Saved1 EXCEPT !.ID = <<"y">>, !.Content = <<"c", NL, "d">>]

\* the kinds of block: two whole records; a block of 3 lines (marker,
\* identifier, title), one of the marker line alone and one of 4 lines, each
\* followed by the blank line that separates blocks
BlockKinds == {"record 1", "record 2", "3 lines", "1 line", "4 lines"}

BlockText(kind, i) ==
    IF kind = "record 1" THEN generateBlock(i, Saved1)
    ELSE IF kind = "record 2" THEN generateBlock(i, Saved3)
    ELSE IF kind = "3 lines"
    THEN <<SectionMarker>> \o Itoa(i) \o <<NL, LabelID, SP, "s", NL, LabelTitle, SP, "t", NL, NL>>
    ELSE IF kind = "1 line"
    THEN <<SectionMarker>> \o Itoa(i) \o <<NL, NL>>
    ELSE <<SectionMarker>> \o Itoa(i)
            \o <<NL, LabelID, SP, "f", NL, LabelTitle, SP, "t", NL, LabelSource, SP, "s", NL, NL>>

Documents ==
    UNION {[1..n -> BlockKinds] : n \in 1..MaxBlocks}

\* the document text of a sequence of blocks
RECURSIVE DocumentText(_)
DocumentText(blocks) ==
    IF blocks = <<>> THEN <<Header, NL, NL>>
    ELSE DocumentText(SubSeq(blocks, 1, Len(blocks) - 1)) \o blocks[Len(blocks)].text

InitParse ==
    /\ StoreOff /\ TrigOff /\ RetrieverOff /\ ExchangeOff
    /\ rtPc = "off" /\ rtIn = <<>> /\ rtOut = <<>>
    /\ \E d \in Documents :
          doc = [i \in 1..Len(d) |-> [kind |-> d[i], text |-> BlockText(d[i], i)]]
    /\ parseRet = NoParsed

\* the document is parsed, and so is the document without the blocks the
\* parser finds too short
ParseDocument ==
    /\ ~parseRet.done
    /\ \E now \in NowValues :
          LET whole == parseMemoriesFromMarkdown(DocumentText(doc), 0, now)
              kept == SelectSeq(doc, LAMBDA b : b.kind \notin {"3 lines", "1 line"})
              others == parseMemoriesFromMarkdown(DocumentText(kept), 0, now)
          IN parseRet' = [done |-> TRUE, whole |-> whole.memories, err |-> whole.err,
                        others |-> others.memories,
                        saved |-> generateMemoriesMarkdown(whole.memories)]
    /\ UNCHANGED <<rtPc, rtIn, rtOut, doc, storeVars, trigVars, rrVars, exVars>>

NextParse == ParseDocument

SpecParse == InitParse /\ [][NextParse]_vars

(***************************************************************************)
(* parseMemoriesFromMarkdown on documents whose blocks were edited by hand *)
(* one at a time: a field malformed or missing, the metadata lines in      *)
(* another order, a labelled line or blank lines in the content, and any   *)
(* number after the block marker.                                          *)
(***************************************************************************)
MaxEditedBlocks == 2

EditedKinds ==
    {"whole", "bad time", "rfc3339 time", "bad importance", "partial importance",
     "no importance", "no id", "empty id", "reversed", "label in content",
     "padded content"}

\* the number after the marker: the position of the block, or another number
EditedOrdinals == {"position", "7"}

LabelledContent == <<"c", NL, LabelTitle, SP, "z", NL, NL, "d">>

PaddedContent == <<NL, NL, "c", NL, "d", NL, SP, NL>>

\* the text of a block of Saved1 edited in the given way
EditedBlockText(kind, ord) ==
    LET id == IF kind = "empty id" THEN <<>> ELSE Saved1.ID
        created == IF kind = "bad time" THEN <<"n", "o", "w">>
                   ELSE IF kind = "rfc3339 time"
                   THEN FormatRFC3339([Saved1.CreatedAt EXCEPT !.off = 1])
                   ELSE FormatTime(Saved1.CreatedAt)
        importance == IF kind = "bad importance" THEN <<"h", "i", "g", "h">>
                      ELSE IF kind = "partial importance" THEN <<"8", "x">>
                      ELSE IF kind = "no importance" THEN <<>>
                      ELSE Itoa(Saved1.Importance)
        content == IF kind = "label in content" THEN LabelledContent
                   ELSE IF kind = "padded content" THEN PaddedContent
                   ELSE Saved1.Content
        idLine == IF kind = "no id" THEN <<>> ELSE <<<<LabelID, SP>> \o id>>
        written == idLine \o
                   <<<<LabelTitle, SP>> \o Saved1.Title,
                     <<LabelTags, SP>> \o Join(Saved1.Tags, <<COMMA, SP>>),
                     <<LabelCreatedAt, SP>> \o created,
                     <<LabelSource, SP>> \o Saved1.Source,
                     <<LabelImportance, SP>> \o importance>>
        lines == IF kind = "reversed"
                 THEN [k \in 1..Len(written) |-> written[Len(written) + 1 - k]]
                 ELSE written
    IN <<SectionMarker>> \o ord \o <<NL>> \o Join(lines, <<NL>>) \o <<NL, NL>>
          \o content \o <<NL, NL>>

EditedDocuments ==
    UNION {[1..n -> EditedKinds \X EditedOrdinals] : n \in 1..MaxEditedBlocks}

InitParseEdited ==
    /\ StoreOff /\ TrigOff /\ RetrieverOff /\ ExchangeOff
    /\ rtPc = "off" /\ rtIn = <<>> /\ rtOut = <<>>
    /\ \E d \in EditedDocuments :
          doc = [i \in 1..Len(d) |->
                   [kind |-> d[i][1], ord |-> d[i][2],
                    text |-> EditedBlockText(d[i][1], IF d[i][2] = "position" THEN Itoa(i)
                                                      ELSE <<d[i][2]>>)]]
    /\ parseRet = NoParsed

\* the document is parsed, and so is the document with its blocks numbered by
\* position; what was parsed is serialized again
ParseEdited ==
    /\ ~parseRet.done
    /\ \E now \in NowValues :
          LET whole == parseMemoriesFromMarkdown(DocumentText(doc), 0, now)
              numbered == [i \in 1..Len(doc) |->
                              [doc[i] EXCEPT !.text = EditedBlockText(doc[i].kind, Itoa(i))]]
              others == parseMemoriesFromMarkdown(DocumentText(numbered), 0, now)
          IN parseRet' = [done |-> TRUE, whole |-> whole.memories, err |-> whole.err,
                        others |-> others.memories,
                        saved |-> generateMemoriesMarkdown(whole.memories)]
    /\ UNCHANGED <<rtPc, rtIn, rtOut, doc, storeVars, trigVars, rrVars, exVars>>

NextParseEdited == ParseEdited

SpecParseEdited == InitParseEdited /\ [][NextParseEdited]_vars

----------------------------------------------------------------------------
(* The triggers.  Time is counted in whole minutes: the wall clock, a        *)
(* time.Time and a time.Duration are integers.                               *)

MaxClock == 5
MaxEvals == 3

\* the goroutines that evaluate a trigger, and the one that owns it
Callers == {1, 2}
Owner == 1

TriggerTypeTradeComplete == "trade_complete"
TriggerTypePeriodic == "periodic"
TriggerTypeManual == "manual"

\* the fixed parts of the prompt templates and the unit words of formatDuration
TradeCompleteTemplate == "reflect on the trade just completed"
PeriodicTemplateHead == "summarise the trading of the past "
PeriodicTemplateTail == " and reflect on it"
UnitDays == "days"
UnitHours == "hours"
UnitMinutes == "minutes"

MinutesPerHour == 60
HoursPerDay == 24

\* days, hours and minutes are shown whatever they are
everyUnit(d) ==
    Itoa((d \div MinutesPerHour) \div HoursPerDay) \o <<UnitDays>>
        \o Itoa((d \div MinutesPerHour) % HoursPerDay) \o <<UnitHours>>
        \o Itoa(d % MinutesPerHour) \o <<UnitMinutes>>

\* formatDuration for a duration of d >= 0 minutes
formatDuration(d) ==
    LET days == (d \div MinutesPerHour) \div HoursPerDay
        hours == (d \div MinutesPerHour) % HoursPerDay
        minutes == d % MinutesPerHour
    IN IF days > 0
       THEN IF hours > 0 THEN Itoa(days) \o <<UnitDays>> \o Itoa(hours) \o <<UnitHours>>
            ELSE Itoa(days) \o <<UnitDays>>
       ELSE IF hours > 0
       THEN IF minutes > 0
            THEN Itoa(hours) \o <<UnitHours>> \o Itoa(minutes) \o <<UnitMinutes>>
            ELSE Itoa(hours) \o <<UnitHours>>
       ELSE Itoa(minutes) \o <<UnitMinutes>>

\* the intervals and the manual prompts triggers are constructed with
Intervals == {1, 2, 61, 1500}
Prompts == {<<>>, <<"p">>, <<"p", SP, "q">>}

NewTradeCompleteTrigger == [NoTrigger EXCEPT !.kind = TriggerTypeTradeComplete]

NewPeriodicTrigger(interval, now) ==
    [NoTrigger EXCEPT !.kind = TriggerTypePeriodic, !.interval = interval, !.lastTime = now]

NewManualTrigger(prompt) == [NoTrigger EXCEPT !.kind = TriggerTypeManual, !.prompt = prompt]

\* one trigger is constructed, at a time the clock shows
InitTrigger ==
    /\ StoreOff /\ RtOff /\ RetrieverOff /\ ExchangeOff
    /\ clock \in {0, 1}
    /\ trigger \in {NewTradeCompleteTrigger}
                    \cup {NewPeriodicTrigger(i, clock) : i \in Intervals}
                    \cup {NewManualTrigger(q) : q \in Prompts}
    /\ tpc = [c \in Callers |-> "idle"]
    /\ tframe = [c \in Callers |-> NoEval]
    /\ evals = <<>>
    /\ tret = NoPrompt

\* wall-clock time passes
Tick ==
    /\ clock < MaxClock
    /\ clock' = clock + 1
    /\ UNCHANGED <<trigger, tpc, tframe, evals, tret, storeVars, rtVars, rrVars, exVars>>

\* an evaluation returns
Evaluated(c, now, last, fired, after, data) ==
    Append(evals, [caller |-> c, now |-> now, last |-> last, fired |-> fired,
                   after |-> after, data |-> data])

dueStrictly(now, last, interval) == now - last > interval

neverDue(now, last, interval) == FALSE

alwaysDue(now, last, interval) == TRUE

\* now.Sub(t.lastTime) >= t.interval
due(now, last, interval) == now - last >= interval

lastTimeKept(last, now) == last

\* t.lastTime = now
lastTimeReset(last, now) == now

\* the data argument of ShouldTrigger: nil, or what the caller passes
NoData == "nil"
DataValues == {NoData, "trade", "position"}

trueWithData(data) == data # NoData

\* return true
alwaysTrue(data) == TRUE

\* TradeCompleteTrigger.ShouldTrigger and ManualTrigger.ShouldTrigger: true,
\* whatever the data and the receiver's fields
AlwaysShouldTrigger(c) ==
    /\ tpc[c] = "idle" /\ Len(evals) < MaxEvals
    /\ trigger.kind \in {TriggerTypeTradeComplete, TriggerTypeManual}
    /\ \E data \in DataValues : evals' = Evaluated(c, 0, 0, alwaysTrue(data), 0, data)
    /\ UNCHANGED <<clock, trigger, tpc, tframe, tret, storeVars, rtVars, rrVars, exVars>>

\* PeriodicTrigger.ShouldTrigger: now := time.Now()
PeriodicShouldTriggerNow(c) ==
    /\ tpc[c] = "idle" /\ Len(evals) < MaxEvals
    /\ trigger.kind = TriggerTypePeriodic
    /\ tframe' = [tframe EXCEPT ![c] = [now |-> clock, last |-> 0]]
    /\ tpc' = [tpc EXCEPT ![c] = "compare"]
    /\ UNCHANGED <<clock, trigger, evals, tret, storeVars, rtVars, rrVars, exVars>>

\* PeriodicTrigger.ShouldTrigger: the comparison with t.lastTime; not due, it
\* returns false
PeriodicShouldTriggerCompare(c) ==
    /\ tpc[c] = "compare"
    /\ IF due(tframe[c].now, trigger.lastTime, trigger.interval)
       THEN /\ tframe' = [tframe EXCEPT ![c].last = trigger.lastTime]
            /\ tpc' = [tpc EXCEPT ![c] = "reset"]
            /\ UNCHANGED evals
       ELSE /\ evals' = Evaluated(c, tframe[c].now, trigger.lastTime, FALSE,
                                  trigger.lastTime, NoData)
            /\ tframe' = [tframe EXCEPT ![c] = NoEval]
            /\ tpc' = [tpc EXCEPT ![c] = "idle"]
    /\ UNCHANGED <<clock, trigger, tret, storeVars, rtVars, rrVars, exVars>>

\* PeriodicTrigger.ShouldTrigger: due, it sets t.lastTime and returns true
PeriodicShouldTriggerReset(c) ==
    /\ tpc[c] = "reset"
    /\ trigger' = [trigger EXCEPT !.lastTime = lastTimeReset(@, tframe[c].now)]
    /\ evals' = Evaluated(c, tframe[c].now, tframe[c].last, TRUE, trigger'.lastTime,
                        NoData)
    /\ tframe' = [tframe EXCEPT ![c] = NoEval]
    /\ tpc' = [tpc EXCEPT ![c] = "idle"]
    /\ UNCHANGED <<clock, tret, storeVars, rtVars, rrVars, exVars>>

ShouldTrigger(c) ==
    \/ AlwaysShouldTrigger(c)
    \/ PeriodicShouldTriggerNow(c)
    \/ PeriodicShouldTriggerCompare(c)
    \/ PeriodicShouldTriggerReset(c)

TradeCompleteGetTriggerType == TriggerTypeTradeComplete

PeriodicGetTriggerType == TriggerTypePeriodic

ManualGetTriggerType == TriggerTypeManual

GetTriggerType(c) ==
    /\ tpc[c] = "idle"
    /\ LET r == IF trigger.kind = TriggerTypeTradeComplete
                THEN TradeCompleteGetTriggerType
                ELSE IF trigger.kind = TriggerTypePeriodic
                THEN PeriodicGetTriggerType
                ELSE ManualGetTriggerType
       IN tret' = [op |-> "GetTriggerType", val |-> <<r>>, err |-> "nil"]
    /\ UNCHANGED <<clock, trigger, tpc, tframe, evals, storeVars, rtVars, rrVars, exVars>>

promptNeverEmpty(prompt) == FALSE

\* t.prompt == ""
promptIsEmpty(prompt) == prompt = <<>>

TradeCompleteGetReflectionPrompt == [val |-> <<TradeCompleteTemplate>>, err |-> "nil"]

PeriodicGetReflectionPrompt(interval) ==
    [val |-> <<PeriodicTemplateHead>> \o formatDuration(interval)
                 \o <<PeriodicTemplateTail>>,
     err |-> "nil"]

ManualGetReflectionPrompt(prompt) ==
    IF promptIsEmpty(prompt) THEN [val |-> <<>>, err |-> "manual trigger prompt is empty"]
    ELSE [val |-> prompt, err |-> "nil"]

GetReflectionPrompt(c) ==
    /\ tpc[c] = "idle"
    /\ LET r == IF trigger.kind = TriggerTypeTradeComplete
                THEN TradeCompleteGetReflectionPrompt
                ELSE IF trigger.kind = TriggerTypePeriodic
                THEN PeriodicGetReflectionPrompt(trigger.interval)
                ELSE ManualGetReflectionPrompt(trigger.prompt)
       IN tret' = [op |-> "GetReflectionPrompt", val |-> r.val, err |-> r.err]
    /\ UNCHANGED <<clock, trigger, tpc, tframe, evals, storeVars, rtVars, rrVars, exVars>>

\* one owner evaluates the trigger, one call after the other
NextTrigger ==
    \/ Tick
    \/ ShouldTrigger(Owner)
    \/ GetTriggerType(Owner)
    \/ GetReflectionPrompt(Owner)

SpecTrigger == InitTrigger /\ [][NextTrigger]_vars

(***************************************************************************)
(* The periodic trigger asked for its prompt, for intervals of up to       *)
(* MaxDays days and more. The unit of time is the minute, so the interval  *)
(* 0 stands for every interval of less than a minute.                      *)
(***************************************************************************)
MaxDays == 2
PromptHours == {0, 1, 3, 23}
PromptMinutes == {0, 1, 20, 59}

PromptIntervals ==
    {(days * HoursPerDay + hours) * MinutesPerHour + minutes :
        days \in 0..MaxDays, hours \in PromptHours, minutes \in PromptMinutes}

InitPrompt ==
    /\ StoreOff /\ RtOff /\ RetrieverOff /\ ExchangeOff
    /\ clock \in {0, 1}
    /\ trigger \in {NewPeriodicTrigger(i, clock) : i \in PromptIntervals}
    /\ tpc = [c \in Callers |-> "idle"]
    /\ tframe = [c \in Callers |-> NoEval]
    /\ evals = <<>>
    /\ tret = NoPrompt

NextPrompt ==
    \/ GetTriggerType(Owner)
    \/ GetReflectionPrompt(Owner)

SpecPrompt == InitPrompt /\ [][NextPrompt]_vars

(***************************************************************************)
(* The periodic trigger evaluated for ever by one owner while time passes. *)
(* Times are kept relative to a window of MaxClock units: once the clock   *)
(* shows MaxClock, a further unit of time moves lastTime and the time an   *)
(* evaluation in progress has read one unit into the past instead, until   *)
(* lastTime is MaxClock or more in the past. The intervals are those the   *)
(* window can show.                                                        *)
(***************************************************************************)
InitTriggerLive ==
    /\ InitTrigger
    /\ trigger.kind = TriggerTypePeriodic
    /\ trigger.interval <= MaxClock

\* wall-clock time passes at the end of the window
TickShifted ==
    /\ clock = MaxClock
    /\ trigger.lastTime > 0
    /\ trigger' = [trigger EXCEPT !.lastTime = @ - 1]
    /\ tframe' = [c \in Callers |->
                    IF tpc[c] = "idle" THEN tframe[c]
                    ELSE [now |-> tframe[c].now - 1,
                          last |-> IF tpc[c] = "reset" THEN tframe[c].last - 1
                                   ELSE tframe[c].last]]
    /\ evals' = <<>>
    /\ UNCHANGED <<clock, tpc, tret, storeVars, rtVars, rrVars, exVars>>

\* the owner keeps no more of the results than the last ones
Forget ==
    /\ Len(evals) = MaxEvals
    /\ \A c \in Callers : tpc[c] = "idle"
    /\ evals' = <<>>
    /\ UNCHANGED <<clock, trigger, tpc, tframe, tret, storeVars, rtVars, rrVars, exVars>>

NextTriggerLive ==
    \/ Tick
    \/ TickShifted
    \/ Forget
    \/ PeriodicShouldTriggerNow(Owner)
    \/ PeriodicShouldTriggerCompare(Owner)
    \/ PeriodicShouldTriggerReset(Owner)

\* time keeps advancing and the owner keeps evaluating
FairnessTriggerLive ==
    /\ WF_vars(Tick \/ TickShifted)
    /\ WF_vars(Forget)
    /\ WF_vars(PeriodicShouldTriggerNow(Owner))
    /\ WF_vars(PeriodicShouldTriggerCompare(Owner))
    /\ WF_vars(PeriodicShouldTriggerReset(Owner))

SpecTriggerLive == InitTriggerLive /\ [][NextTriggerLive]_vars /\ FairnessTriggerLive

(***************************************************************************)
(* The periodic trigger evaluated by two callers at once, with no lock     *)
(* around it: the steps of their evaluations interleave freely. A read of  *)
(* lastTime that overlaps the other caller's write gives the value before  *)
(* or after it, which are the two orders of the steps.                     *)
(***************************************************************************)
InitTriggerConcurrent ==
    /\ InitTrigger
    /\ trigger.kind = TriggerTypePeriodic

NextTriggerConcurrent ==
    \/ Tick
    \/ \E c \in Callers :
          \/ PeriodicShouldTriggerNow(c)
          \/ PeriodicShouldTriggerCompare(c)
          \/ PeriodicShouldTriggerReset(c)

SpecTriggerConcurrent == InitTriggerConcurrent /\ [][NextTriggerConcurrent]_vars

----------------------------------------------------------------------------
(* MemoryRetriever: RetrieveRelevantMemories over the store, with the        *)
(* text-completion capability as an environment that answers each request    *)
(* with an error, no response, no choice, or a text.                          *)

\* the fixed parts of the scoring request
SystemText == "you are a trading memory retrieval system"
PromptHead == "score each memory from 0 to 10 against the situation: "
PromptList == "memories:"
EntryLabel == "memory "
EntryTitle == "title: "
EntryTags == "tags: "
EntryContent == "content: "

MinScore == 0
MaxScore == 10

\* one entry of the listing, numbered i
listEntry(i, memory) ==
    <<NL, EntryLabel>> \o Itoa(i) \o <<":", NL, EntryTitle>> \o memory.Title
        \o <<NL, EntryTags>> \o Join(memory.Tags, <<COMMA, SP>>)
        \o <<NL, EntryContent>> \o memory.Content \o <<NL, NL>>

listOnlyFirst(mems, i) == IF mems = <<>> THEN <<>> ELSE listEntry(i, Head(mems))

\* for i, memory := range memories { prompt += ... }
RECURSIVE listMemories(_, _)
listMemories(mems, i) ==
    IF mems = <<>> THEN <<>>
    ELSE listEntry(i, Head(mems)) \o listMemories(Tail(mems), i + 1)

buildPrompt(situation, mems) ==
    <<PromptHead>> \o situation \o <<NL, NL, PromptList, NL>> \o listMemories(mems, 1)

\* the context RetrieveRelevantMemories is called with
CallerContext == "ctx"

backgroundContext(ctx) == "context.Background()"

\* the context handed on to evaluateRelevance and to GenerateContent
passedContext(ctx) == ctx

\* the call r.llm.GenerateContent(ctx, messages, WithTemperature(0.0))
Request(prompt) ==
    [ctx |-> passedContext(CallerContext),
     messages |-> <<[role |-> "system", text |-> <<SystemText>>],
                    [role |-> "human", text |-> prompt]>>,
     temperature |-> 0]

unclamped(score) == score

\* if score < 0 { score = 0 } else if score > 10 { score = 10 }
clamp(score) ==
    IF score < MinScore THEN MinScore ELSE IF score > MaxScore THEN MaxScore ELSE score

\* the score read from line i of the response, 0 without such a line
scoreOfLine(lines, i) ==
    IF i > Len(lines) THEN 0
    ELSE LET line == TrimSpace(lines[i])
         IN IF line = <<>> THEN 0 ELSE clamp(Sscanf(line, 0))

\* the parsing part of evaluateRelevance: one score per memory
parseScores(responseText, n) ==
    LET lines == Split(responseText, NL)
    IN [i \in 1..n |-> scoreOfLine(lines, i)]

storeOrder(scores) == {[i \in 1..Len(scores) |-> i]}

\* sort.Slice by descending score: every order of the positions 1..n in which
\* no score is followed by a higher one.  sort.Slice is not a stable sort: it
\* keeps equal elements in order only as long as the slice is short enough to
\* be sorted by insertion, so every order of equal scores is an outcome
Sorted(scores) ==
    LET n == Len(scores)
    IN {o \in [1..n -> 1..n] :
          /\ \A a, b \in 1..n : a # b => o[a] # o[b]
          /\ \A a \in 1..(n - 1) : scores[o[a]] >= scores[o[a + 1]]}

allResults(n, maxResults) == n

\* resultCount
resultCount(n, maxResults) == IF maxResults > 0 /\ n > maxResults THEN maxResults ELSE n

\* the arguments of RetrieveRelevantMemories
Situations == {<<"s">>}
MaxResultsValues == {-1, 0, 1, 2}

\* the texts the capability answers with
Responses ==
    {<<>>,
     <<"8", NL, "5">>,
     <<"1", "2", NL, "-", "3">>,
     <<"x", NL, "+", "7">>,
     <<NL, "9">>,
     <<"4">>,
     <<SP, "6", SP, NL, "8", "x">>,
     <<"5", NL, "5", NL, "3">>}

LLMError == [kind |-> "error", text |-> <<>>]

LLMOutcomes ==
    {LLMError,
     [kind |-> "nil", text |-> <<>>],
     [kind |-> "no choices", text |-> <<>>]}
    \cup {[kind |-> "content", text |-> t] : t \in Responses}

\* a capability that honours cancellation: once the context it was handed is
\* cancelled the call returns an error
OutcomesOf(request, cancelled) ==
    IF cancelled /\ request.ctx = CallerContext THEN {LLMError} ELSE LLMOutcomes

emptyOnlyWithoutChoice(resp) == resp.kind \in {"nil", "no choices"}

\* resp == nil || len(resp.Choices) == 0 || resp.Choices[0].Content == ""
emptyResponse(resp) == resp.kind \in {"nil", "no choices"} \/ resp.text = <<>>

InitRetriever ==
    /\ StoreInit /\ RtOff /\ TrigOff /\ ExchangeOff
    /\ rrPc = "idle"
    /\ rrFrame = NoRelevantFrame
    /\ rrRet = NoRelevantRet
    /\ llmLog = <<>>

neverEmpty(mems) == FALSE

\* len(memories) == 0
noMemories(mems) == Len(mems) = 0

storeMemories(snapshot, current) == current

\* the local variable memories, the copy GetAllMemories returned
localMemories(snapshot, current) == snapshot

RelevantReturn(f, fetched, err, val, resp, scores) ==
    [done |-> TRUE, err |-> err, val |-> val, fetched |-> fetched,
     situation |-> f.situation, maxResults |-> f.maxResults, memories |-> f.memories,
     view |-> f.view, sent |-> f.sent, resp |-> resp, scores |-> scores,
     cancelled |-> f.cancelled, current |-> memories]

\* RetrieveRelevantMemories up to the completion call: GetAllMemories under
\* the read lock; an error or an empty collection ends the call, otherwise
\* the request is built and sent
RetrieveRelevantFetch ==
    /\ rrPc = "idle" /\ calls < MaxCalls
    /\ CanRLock
    /\ calls' = calls + 1
    /\ \E situation \in Situations, maxResults \in MaxResultsValues :
          LET f == [NoRelevantFrame EXCEPT !.situation = situation,
                                          !.maxResults = maxResults]
          IN IF ~initialized
             THEN /\ rrRet' = RelevantReturn(f, FALSE, "failed to get all memories", <<>>,
                                             NoResponse, <<>>)
                  /\ UNCHANGED <<rrPc, rrFrame, llmLog>>
             ELSE IF noMemories(memories)
             THEN /\ rrRet' = RelevantReturn(f, TRUE, "nil", <<>>, NoResponse, <<>>)
                  /\ UNCHANGED <<rrPc, rrFrame, llmLog>>
             ELSE LET view == DerefAll(heap, memories)
                      request == Request(buildPrompt(situation, view))
                  IN /\ rrFrame' = [f EXCEPT !.memories = memories, !.view = view,
                                             !.sent = <<request>>]
                     /\ llmLog' = Append(llmLog, request)
                     /\ rrPc' = "GenerateContent"
                     /\ UNCHANGED rrRet
    /\ UNCHANGED <<fs, memories, initialized, mutex, heap, uuids, pc, frame, ret,
                   mutations, rtVars, trigVars, exVars>>

\* the completion call returns: an error or an empty response ends the call
\* with an error; a text is parsed into scores, the snapshot is sorted by
\* them and cut to maxResults
RetrieveRelevantRespond ==
    /\ rrPc = "GenerateContent"
    /\ \E resp \in OutcomesOf(rrFrame.sent[1], rrFrame.cancelled) :
          IF resp.kind = "error"
          THEN rrRet' = RelevantReturn(rrFrame, TRUE, "failed to evaluate memory relevance",
                                      <<>>, resp, <<>>)
          ELSE IF emptyResponse(resp)
          THEN rrRet' = RelevantReturn(rrFrame, TRUE, "failed to evaluate memory relevance",
                                      <<>>, resp, <<>>)
          ELSE LET mems == localMemories(rrFrame.memories, memories)
                   n == Len(mems)
                   scores == parseScores(resp.text, n)
               IN \E o \in Sorted(scores) :
                     rrRet' = RelevantReturn(
                                  rrFrame, TRUE, "nil",
                                  [k \in 1..resultCount(n, rrFrame.maxResults) |->
                                      mems[o[k]]],
                                  resp, scores)
    /\ rrPc' = "idle"
    /\ rrFrame' = NoRelevantFrame
    /\ UNCHANGED <<llmLog, storeVars, rtVars, trigVars, exVars>>

RetrieveRelevantMemories == RetrieveRelevantFetch \/ RetrieveRelevantRespond

\* the caller's context is cancelled while the completion call is in flight
CancelContext ==
    /\ rrPc = "GenerateContent" /\ ~rrFrame.cancelled
    /\ rrFrame' = [rrFrame EXCEPT !.cancelled = TRUE]
    /\ UNCHANGED <<rrPc, rrRet, llmLog, storeVars, rtVars, trigVars, exVars>>

\* the store is initialized and added to while the retriever runs
NextRetriever ==
    \/ \E p \in Procs : Initialize(p) \/ AddMemory(p)
    \/ RetrieveRelevantMemories
    \/ CancelContext

SpecRetriever == InitRetriever /\ [][NextRetriever]_vars

----------------------------------------------------------------------------
(* ExchangeEntity.HandleCommand, with ClosePosition and OpenPosition.  The   *)
(* position is its direction, the size of its base quantity and whether      *)
(* IsDust holds at the close price; quantities are whole numbers of the      *)
(* smallest quantity a fixedpoint.Value holds.  The order executor accepts   *)
(* or rejects each order form as it likes.                                   *)

MaxQuantity == 3
MaxMinQuantity == 2

SideTypeBuy == "BUY"
SideTypeSell == "SELL"
SideTypeSelf == "SELF"

OpenCommands == {"open_long_position", "open_short_position"}

Commands == OpenCommands \cup {"close_position", "update_position", "hold"}

\* the stop_loss_trigger_price and take_profit_trigger_price arguments
ArgsValues == {"none", "valid", "stop loss invalid", "take profit invalid"}

Entities ==
    {e \in [kline : BOOLEAN, side : {"flat", "long", "short"}, base : 0..MaxQuantity,
            dust : BOOLEAN, minQuantity : 0..MaxMinQuantity] :
        /\ e.side = "flat" <=> e.base = 0
        /\ e.side = "flat" => e.dust}

InitExchange ==
    /\ StoreOff /\ RtOff /\ TrigOff /\ RetrieverOff
    /\ ent \in Entities
    /\ exPc = "idle"
    /\ exFrame = NoCommandFrame
    /\ exRet = NoCommandRet
    /\ orders = <<>>

cmdToSide(cmd) ==
    IF cmd = "open_long_position" THEN SideTypeBuy
    ELSE IF cmd = "open_short_position" THEN SideTypeSell
    ELSE SideTypeSelf

\* the signal is against the position held
opposite(side, position) ==
    \/ side = SideTypeSell /\ position = "long"
    \/ side = SideTypeBuy /\ position = "short"

neverAnError(cmd) == FALSE

\* a position that is not dust and not opposite: an error for the open commands
sameDirectionIsError(cmd) == cmd \in OpenCommands

\* quantity.Mul(fixedpoint.NewFromFloat(0.99))
reduced(quantity) == (quantity * 99) \div 100

\* the order executor's record of the order forms submitted; a form that
\* repeats the one before it, answer included, is recorded once
Submitted(form) ==
    IF orders # <<>> /\ orders[Len(orders)] = form THEN orders ELSE Append(orders, form)

\* HandleCommand returns
CommandReturn(cmd, err) ==
    /\ exRet' = [done |-> TRUE, err |-> err, cmd |-> cmd]
    /\ exPc' = "idle"

\* HandleCommand up to its first call: the kline window, the command, the
\* position
HandleCommandCall ==
    /\ exPc = "idle" /\ ~exRet.done
    /\ \E cmd \in Commands, args \in ArgsValues :
          /\ exFrame' = [NoCommandFrame EXCEPT !.cmd = cmd, !.args = args,
                                              !.side = cmdToSide(cmd)]
          /\ IF ~ent.kline THEN CommandReturn(cmd, "current kline nil")
             ELSE IF cmd = "close_position"
             THEN IF ent.dust THEN CommandReturn(cmd, "nil")
                  ELSE IF ent.side \in {"long", "short"}
                  THEN exPc' = "ClosePosition" /\ UNCHANGED exRet
                  ELSE CommandReturn(cmd, "no existing open position")
             ELSE IF cmd \in OpenCommands \cup {"update_position"}
             THEN IF ~ent.dust /\ opposite(cmdToSide(cmd), ent.side)
                  THEN exPc' = "ClosePosition" /\ UNCHANGED exRet
                  ELSE IF ~ent.dust /\ sameDirectionIsError(cmd)
                  THEN CommandReturn(cmd, "existing position has the same direction with the signal")
                  ELSE exPc' = "options" /\ UNCHANGED exRet
             ELSE CommandReturn(cmd, "nil")
    /\ UNCHANGED <<ent, orders, storeVars, rtVars, trigVars, rrVars>>

\* ClosePosition: no position or too small a quantity is an error; otherwise
\* the close order is submitted, and its rejection is the error returned
ClosePosition ==
    /\ exPc = "ClosePosition"
    /\ LET wrap == IF exFrame.cmd = "close_position" THEN "close position error"
                   ELSE "close existing position error"
           after == IF exFrame.cmd = "close_position" THEN "return" ELSE "options"
           side == IF ent.side = "long" THEN SideTypeSell ELSE SideTypeBuy
       IN IF ent.side = "flat" \/ (ent.side = "long" /\ ent.base < ent.minQuantity)
          THEN CommandReturn(exFrame.cmd, wrap) /\ UNCHANGED <<exFrame, orders>>
          ELSE \E result \in {"accepted", "rejected"} :
                  /\ orders' = Submitted([kind |-> "close", side |-> side,
                                          quantity |-> ent.base, result |-> result])
                  /\ UNCHANGED exFrame
                  /\ IF result = "rejected" THEN CommandReturn(exFrame.cmd, wrap)
                     ELSE IF after = "return" THEN CommandReturn(exFrame.cmd, "nil")
                     ELSE exPc' = "options" /\ UNCHANGED exRet
    /\ UNCHANGED <<ent, storeVars, rtVars, trigVars, rrVars>>

\* the stop loss and the take profit are parsed; then OpenPosition is entered
\* with the quantity calculateQuantity returns, or UpdatePositionV2
HandleCommandOptions ==
    /\ exPc = "options"
    /\ IF exFrame.args \in {"stop loss invalid", "take profit invalid"}
       THEN CommandReturn(exFrame.cmd, "the " \o exFrame.args) /\ UNCHANGED exFrame
       ELSE IF exFrame.cmd \in OpenCommands
       THEN /\ \E quantity \in 0..MaxQuantity :
                  exFrame' = [exFrame EXCEPT !.quantity = quantity]
            /\ exPc' = "OpenPosition" /\ UNCHANGED exRet
       ELSE exPc' = "UpdatePositionV2" /\ UNCHANGED <<exFrame, exRet>>
    /\ UNCHANGED <<ent, orders, storeVars, rtVars, trigVars, rrVars>>

\* the exchange's position update service answers
UpdatePositionV2 ==
    /\ exPc = "UpdatePositionV2"
    /\ \E err \in {"nil", "open position error"} : CommandReturn(exFrame.cmd, err)
    /\ UNCHANGED <<ent, exFrame, orders, storeVars, rtVars, trigVars, rrVars>>

\* OpenPosition, the head of the loop: a quantity below the market's minimum
\* is an error
OpenPositionCheck ==
    /\ exPc = "OpenPosition"
    /\ IF exFrame.quantity < ent.minQuantity
       THEN CommandReturn(exFrame.cmd, "open position error")
       ELSE exPc' = "SubmitOrders" /\ UNCHANGED exRet
    /\ UNCHANGED <<ent, exFrame, orders, storeVars, rtVars, trigVars, rrVars>>

\* OpenPosition, SubmitOrders: accepted, the loop ends; rejected for
\* insufficient funds, the quantity is reduced and the loop goes on; rejected
\* otherwise, the error is returned
OpenPositionSubmit ==
    /\ exPc = "SubmitOrders"
    /\ \E result \in {"accepted", "Insufficient USDT", "rejected"} :
          /\ orders' = Submitted([kind |-> "open", side |-> exFrame.side,
                                  quantity |-> exFrame.quantity, result |-> result])
          /\ IF result = "Insufficient USDT"
             THEN /\ exFrame' = [exFrame EXCEPT !.quantity = reduced(@)]
                  /\ exPc' = "OpenPosition" /\ UNCHANGED exRet
             ELSE /\ UNCHANGED exFrame
                  /\ CommandReturn(exFrame.cmd, IF result = "accepted" THEN "nil"
                                   ELSE "open position error")
    /\ UNCHANGED <<ent, storeVars, rtVars, trigVars, rrVars>>

NextExchange ==
    \/ HandleCommandCall
    \/ ClosePosition
    \/ HandleCommandOptions
    \/ UpdatePositionV2
    \/ OpenPositionCheck
    \/ OpenPositionSubmit

SpecExchange == InitExchange /\ [][NextExchange]_vars

\* the command is handled and every call made on the way returns
FairnessExchange ==
    /\ WF_vars(HandleCommandCall)
    /\ WF_vars(ClosePosition)
    /\ WF_vars(HandleCommandOptions)
    /\ WF_vars(UpdatePositionV2)
    /\ WF_vars(OpenPositionCheck)
    /\ WF_vars(OpenPositionSubmit)

SpecExchangeLive == InitExchange /\ [][NextExchange]_vars /\ FairnessExchange

----------------------------------------------------------------------------
(* Properties *)

IdsOf(mems) == [i \in 1..Len(mems) |-> mems[i].ID]

\* the metadata line that carries an identifier in the artifact
IdLine(id) == <<LabelID, SP>> \o id \o <<NL>>

ReadOps == {"GetAllMemories", "RetrieveMemories"}

\* an Initialize call that holds the lock and has found no artifact
InitializeCreating(p) ==
    /\ frame[p].op = "Initialize"
    /\ frame[p].nested \/ (pc[p] = "Initialize" /\ ~initialized /\ ~fs.file)

\* C1: Initialize on a store whose backing artifact does not exist terminates
\* (and returns no error, the artifact created and the store initialized):
\* from the moment it holds the lock and finds no artifact until it returns,
\* its next step can always be taken.
C1_InitializeCreatesArtifact ==
    \A p \in Procs : InitializeCreating(p) => ENABLED Continue(p)

\* C2: AddMemory, GetAllMemories, RetrieveMemories and SaveMemories on a store
\* that is not initialized return the "not initialized" error.
C2_NotInitializedIsSignalled ==
    \A p \in Procs :
        (/\ ret[p].op \in {"AddMemory", "GetAllMemories", "RetrieveMemories", "SaveMemories"}
         /\ ~ret[p].wasInit)
            => ret[p].err = ErrNotInitialized

\* C3: a successful AddMemory returns one record that carries the arguments
\* and an identifier no earlier record has, and the collection is then the
\* collection as it was followed by that record; GetAllMemories returns the
\* collection in its order.
C3_AddMemoryAppends ==
    \A p \in Procs :
        /\ (ret[p].op = "AddMemory" /\ ret[p].err = "nil") =>
              /\ Len(ret[p].val) = 1
              /\ ret[p].val[1].Title = ret[p].args.title
              /\ ret[p].val[1].Content = ret[p].args.content
              /\ ret[p].val[1].Tags = ret[p].args.tags
              /\ ret[p].view[1].Tags = ret[p].args.tagsVal
              /\ ret[p].val[1].Source = ret[p].args.source
              /\ ret[p].val[1].Importance = ret[p].args.importance
              /\ \A i \in 1..Len(ret[p].pre) : ret[p].pre[i].ID # ret[p].val[1].ID
              /\ ret[p].post = ret[p].pre \o ret[p].val
        /\ (ret[p].op = "GetAllMemories" /\ ret[p].err = "nil") => ret[p].val = ret[p].post

C3_Witness ==
    \E p \in Procs :
        /\ ret[p].op = "AddMemory" /\ ret[p].err = "nil" /\ Len(ret[p].pre) >= 1
        /\ \E q \in Procs : ret[q].op = "GetAllMemories" /\ ret[q].val = ret[p].post

\* C4: when a successful AddMemory or SaveMemories returns, a second store
\* initialized on the artifact holds as many records, with the same
\* identifiers in the same order.
C4_SecondStoreSeesSameIds ==
    \A p \in Procs :
        (ret[p].op \in {"AddMemory", "SaveMemories"} /\ ret[p].err = "nil") =>
            \A now \in NowValues :
                IdsOf(loadMemoriesFromFile(<<>>, uuids, ret[p].data, now).memories)
                    = IdsOf(ret[p].post)

\* the last call of p was an AddMemory whose write failed
FailedAdd(p) == ret[p].op = "AddMemory" /\ ret[p].err = "failed to save memory to file"

C5_FailedAddState ==
    \A p \in Procs :
        FailedAdd(p) =>
            /\ ret[p].val = <<>>
            /\ ret[p].post = Append(ret[p].pre, ret[p].memory)
            /\ \E i \in 1..Len(memories) : memories[i] = ret[p].memory

C5_FailedAddStep ==
    \A p, q \in Procs :
        FailedAdd(p) =>
            /\ (pc[q] = "GetAllMemories" /\ pc'[q] = "idle" /\ ret'[q].err = "nil")
                  => \E i \in 1..Len(ret'[q].val) : ret'[q].val[i] = ret[p].memory
            /\ (/\ pc[q] \in {"saveMemoriesToFile@AddMemory", "saveMemoriesToFile@SaveMemories"}
                /\ pc'[q] = "idle" /\ ret'[q].err = "nil")
                  => Contains(fs'.data, IdLine(ret[p].memory.ID))

\* C5: an AddMemory whose write fails returns an error and no record, the
\* record stays in the collection, later GetAllMemories calls return it and
\* the next successful write puts it in the artifact.
C5_FailedAddKeepsRecord == []C5_FailedAddState /\ [][C5_FailedAddStep]_vars

C5_Witness ==
    \E p, q \in Procs :
        /\ p # q /\ FailedAdd(p)
        /\ ret[q].op \in {"AddMemory", "SaveMemories"} /\ ret[q].err = "nil"
        /\ Contains(fs.data, IdLine(ret[p].memory.ID))

\* between taking the lock and returning
WriterInside(p) ==
    pc[p] \in {"saveMemoriesToFile@AddMemory", "saveMemoriesToFile@SaveMemories"}

ReaderInside(p) == pc[p] \in ReadOps

\* C6: while an AddMemory or SaveMemories call holds the lock, no other call is
\* inside its critical section, and no read returns a record whose first save
\* has not finished.
C6_WritersExclusive ==
    /\ \A p, q \in Procs :
          (p # q /\ WriterInside(p)) => ~WriterInside(q) /\ ~ReaderInside(q)
    /\ \A q \in Procs :
          ret[q].op \in ReadOps =>
              \A i \in 1..Len(ret[q].val) : ret[q].val[i].ID \notin ret[q].inflight

\* a writer holds the lock while another caller waits at SaveMemories' Lock
C6_Witness ==
    \E p, q \in Procs :
        p # q /\ pc[p] = "saveMemoriesToFile@AddMemory" /\ pc[q] = "SaveMemories"

\* C7: a caller's write through a tags slice it passed to AddMemory or was
\* handed by the store changes nothing of what the store returns and saves
\* afterwards.
C7_NoAliasing ==
    [][mutations' # mutations => DerefAll(heap', memories') = DerefAll(heap, memories)]_vars

\* C8: parsing the serialization of well-formed records gives as many
\* records, in order, each with the same identifier, title, tags, source,
\* importance and content, and the same creation time to the second.
C8_RoundTripLaw ==
    rtPc = "done" =>
        /\ Len(rtOut) = Len(rtIn)
        /\ \A i \in 1..Len(rtIn) :
              /\ rtOut[i].ID = rtIn[i].ID
              /\ rtOut[i].Title = rtIn[i].Title
              /\ rtOut[i].Tags = rtIn[i].Tags
              /\ rtOut[i].Source = rtIn[i].Source
              /\ rtOut[i].Importance = rtIn[i].Importance
              /\ rtOut[i].Content = rtIn[i].Content
              /\ FormatRFC3339(rtOut[i].CreatedAt) = FormatRFC3339(rtIn[i].CreatedAt)

\* C9: no two records of the collection have the same identifier.
C9_UniqueIds ==
    \A i, j \in 1..Len(memories) : i # j => memories[i].ID # memories[j].ID

\* equality and containment of text whatever the case of the letters
SameLetter(c, d) == c = d \/ {c, d} = {"a", "A"} \/ {c, d} = {"b", "B"}

EqualFold(s, t) == Len(s) = Len(t) /\ \A i \in 1..Len(s) : SameLetter(s[i], t[i])

ContainsFold(s, sub) ==
    \E i \in 0..(Len(s) - Len(sub)) : EqualFold(SubSeq(s, i + 1, i + Len(sub)), sub)

Matches(r, query, tags) ==
    /\ query = <<>> \/ ContainsFold(r.Title, query) \/ ContainsFold(r.Content, query)
    /\ tags = <<>> \/ \E i \in 1..Len(tags), j \in 1..Len(r.Tags) : EqualFold(tags[i], r.Tags[j])

Filtered(p) ==
    /\ ret[p].op = "RetrieveMemories" /\ ret[p].err = "nil"
    /\ ret[p].args.query # <<>> \/ ret[p].args.qtags # <<>>

\* the positions of the collection that match, in ascending order
RECURSIVE MatchingFrom(_, _, _, _)
MatchingFrom(view, i, query, tags) ==
    IF i > Len(view) THEN <<>>
    ELSE (IF Matches(view[i], query, tags) THEN <<i>> ELSE <<>>)
         \o MatchingFrom(view, i + 1, query, tags)

\* C10: RetrieveMemories with a query or tags and limit 0 returns exactly the
\* records, in insertion order, whose title or content contains the query
\* whatever the case of the letters (or the query is empty) and one of whose
\* tags equals a requested tag whatever the case (or no tag is requested).
C10_RetrieveFilters ==
    \A p \in Procs :
        (Filtered(p) /\ ret[p].args.limit = 0) =>
            LET at == MatchingFrom(ret[p].postView, 1, ret[p].args.query, ret[p].args.qtags)
            IN ret[p].val = [k \in 1..Len(at) |-> ret[p].post[at[k]]]

C10_Witness ==
    \E p \in Procs :
        /\ Filtered(p) /\ ret[p].args.limit = 0
        /\ ret[p].args.query # <<>> /\ ret[p].args.qtags # <<>>
        /\ Len(ret[p].val) >= 1 /\ Len(ret[p].val) < Len(ret[p].post)

\* a successful RetrieveMemories with a query or tags: the positions of the
\* collection that match
MatchedBy(p) == MatchingFrom(ret[p].postView, 1, ret[p].args.query, ret[p].args.qtags)

Min(a, b) == IF a < b THEN a ELSE b

\* C11: RetrieveMemories with a query or tags returns, for limit > 0, the first
\* min(limit, number of matches) matching records in insertion order, and for
\* limit <= 0 all matching records.
C11_LimitTruncates ==
    \A p \in Procs :
        Filtered(p) =>
            LET at == MatchedBy(p)
                n == IF ret[p].args.limit > 0 THEN Min(ret[p].args.limit, Len(at))
                     ELSE Len(at)
            IN ret[p].val = [k \in 1..n |-> ret[p].post[at[k]]]

\* two records match and limit = 1: the first one alone is returned
C11_Witness ==
    \E p \in Procs :
        /\ Filtered(p) /\ ret[p].args.limit > 0
        /\ Len(MatchedBy(p)) > ret[p].args.limit
        /\ Len(ret[p].val) = ret[p].args.limit

\* C12: RetrieveMemories with limit > 0 never returns more than limit records,
\* also when query and tags are both empty.
C12_LimitBoundsResult ==
    \A p \in Procs :
        (ret[p].op = "RetrieveMemories" /\ ret[p].err = "nil" /\ ret[p].args.limit > 0)
            => Len(ret[p].val) <= ret[p].args.limit

\* C13: Initialize on a store that is already initialized returns nil and
\* leaves the collection, the identifiers drawn and the artifact as they were:
\* nothing is read again, loaded twice or lost.
C13_InitializeIdempotent ==
    [][\A p \in Procs :
          (pc[p] = "Initialize" /\ initialized /\ pc'[p] = "idle") =>
              /\ ret'[p].err = "nil"
              /\ memories' = memories /\ heap' = heap /\ uuids' = uuids
              /\ initialized' /\ fs' = fs]_vars

\* a second Initialize has returned on a store holding a record that the
\* artifact does not hold
C13_Witness ==
    \E p \in Procs :
        /\ pc[p] = "idle" /\ ret[p].op = "Initialize" /\ ret[p].wasInit
        /\ Len(memories) >= 1
        /\ fs.data # generateMemoriesMarkdown(DerefAll(heap, memories))

IsPeriodic == trigger.kind = TriggerTypePeriodic

\* C14: a freshly constructed periodic trigger returns true on its first
\* ShouldTrigger evaluation, however soon after construction it is made.
C14_FirstEvaluationFires == (IsPeriodic /\ Len(evals) >= 1) => evals[1].fired

\* C15: any two evaluations of a periodic trigger that returned true are at
\* least the interval apart: after a true evaluation every evaluation made
\* less than the interval later returns false.
C15_TrueEvaluationsApart ==
    IsPeriodic =>
        \A i, j \in 1..Len(evals) :
            (i < j /\ evals[i].fired /\ evals[j].now - evals[i].now < trigger.interval)
                => ~evals[j].fired

\* true, then false before the interval has elapsed, then true again
C15_Witness ==
    /\ IsPeriodic /\ Len(evals) >= 3
    /\ evals[1].fired /\ ~evals[2].fired /\ evals[3].fired
    /\ evals[2].now > evals[1].now

\* C16: a ShouldTrigger evaluation of a periodic trigger at time now returns
\* true exactly when now minus the last-fired timestamp is at least the
\* interval; a true evaluation sets the timestamp to now, a false one leaves
\* it, and the next evaluation starts from the timestamp so left, whatever
\* the caller did with the answer.
C16_EvaluationContract ==
    IsPeriodic =>
        /\ \A k \in 1..Len(evals) :
              /\ evals[k].fired <=> (evals[k].now - evals[k].last >= trigger.interval)
              /\ evals[k].after = IF evals[k].fired THEN evals[k].now ELSE evals[k].last
              /\ k > 1 => evals[k].last = evals[k - 1].after
        /\ (evals # <<>> /\ tpc[Owner] = "idle") => trigger.lastTime = evals[Len(evals)].after

\* an evaluation made exactly one interval after the last true one fired, and
\* the evaluation after it did not
C16_Witness ==
    /\ IsPeriodic /\ Len(evals) >= 3
    /\ evals[1].fired
    /\ evals[2].fired /\ evals[2].now - evals[2].last = trigger.interval
    /\ ~evals[3].fired /\ evals[3].last = evals[2].now

\* C17: GetReflectionPrompt returns an error exactly for a Manual trigger
\* constructed with an empty prompt; a Manual trigger with a non-empty prompt
\* returns that prompt, and Trade-complete and Periodic triggers return a
\* non-empty prompt and no error in every state.
C17_PromptErrors ==
    tret.op = "GetReflectionPrompt" =>
        /\ tret.err # "nil" <=> (trigger.kind = TriggerTypeManual /\ trigger.prompt = <<>>)
        /\ (trigger.kind = TriggerTypeManual /\ trigger.prompt # <<>>)
              => tret.val = trigger.prompt
        /\ trigger.kind # TriggerTypeManual => tret.val # <<>>

\* the prompt of a Manual trigger constructed with an empty prompt was asked for
C17_Witness ==
    /\ tret.op = "GetReflectionPrompt" /\ tret.err # "nil"
    /\ trigger.kind = TriggerTypeManual /\ trigger.prompt = <<>>

\* C18: RetrieveRelevantMemories on an initialized store that holds no record
\* returns an empty sequence and no error, and makes no request to the
\* text-completion capability.
C18_EmptyStoreNoCompletion ==
    /\ (rrRet.done /\ rrRet.fetched /\ rrRet.memories = <<>>)
          => (rrRet.err = "nil" /\ rrRet.val = <<>> /\ rrRet.sent = <<>>)
    /\ rrPc = "GenerateContent" => rrFrame.memories # <<>>

\* a call on an initialized, empty store has returned
C18_Witness ==
    /\ rrRet.done /\ rrRet.fetched /\ rrRet.memories = <<>>
    /\ initialized /\ memories = <<>> /\ llmLog = <<>>

\* the text of the human message of a request
PromptOf(request) == request.messages[Len(request.messages)].text

\* the entry of record k of a snapshot as the request shows it
Listed(k, r) ==
    <<EntryLabel>> \o Itoa(k) \o <<":", NL, EntryTitle>> \o r.Title
        \o <<NL, EntryTags>> \o Join(r.Tags, <<COMMA, SP>>)
        \o <<NL, EntryContent>> \o r.Content \o <<NL>>

StartsAt(text, pos, part) ==
    pos + Len(part) - 1 <= Len(text) /\ SubSeq(text, pos, pos + Len(part) - 1) = part

\* the first position from `from` on at which the part starts, 0 if none
FirstAt(text, from, part) ==
    LET found == {pos \in from..Len(text) : StartsAt(text, pos, part)}
    IN IF found = {} THEN 0 ELSE CHOOSE pos \in found : \A q \in found : pos <= q

\* the entries of records k, k+1, ... of the snapshot follow one another in
\* the text from position `from` on
RECURSIVE ListedInOrder(_, _, _, _)
ListedInOrder(text, snapshot, k, from) ==
    k > Len(snapshot)
    \/ LET pos == FirstAt(text, from, Listed(k, snapshot[k]))
       IN pos # 0 /\ ListedInOrder(text, snapshot, k + 1, pos + 1)

\* the text holds the entries of the snapshot's records one after the other,
\* and as many entries as the snapshot has records
ListsAll(text, snapshot) ==
    /\ Cardinality({i \in 1..Len(text) : text[i] = EntryLabel}) = Len(snapshot)
    /\ ListedInOrder(text, snapshot, 1, 1)

\* C19: a RetrieveRelevantMemories call on a store with n >= 1 records makes
\* exactly one request to the text-completion capability, whatever n is and
\* whatever the answer, and that request lists every record of the snapshot
\* in store order.
C19_OneBatchedCompletion ==
    /\ (rrRet.done /\ rrRet.fetched /\ Len(rrRet.memories) >= 1)
          => /\ Len(rrRet.sent) = 1
             /\ ListsAll(PromptOf(rrRet.sent[1]), rrRet.view)
    /\ rrPc = "GenerateContent" => Len(rrFrame.sent) = 1

\* a call over two records or more has returned after a failed completion
C19_Witness ==
    /\ rrRet.done /\ Len(rrRet.memories) >= 2
    /\ rrRet.resp.kind = "error"
    /\ Len(llmLog) = 1

\* a line that is an integer: an optional sign and then digits only
IsInteger(line) ==
    LET body == IF line # <<>> /\ line[1] \in {"+", "-"} THEN Tail(line) ELSE line
    IN AllDigits(body)

IntegerOf(line) ==
    IF line[1] = "-" THEN -Atoi(Tail(line))
    ELSE IF line[1] = "+" THEN Atoi(Tail(line))
    ELSE Atoi(line)

\* a line that does not begin with an integer
NoInteger(line) ==
    LET body == IF line # <<>> /\ line[1] \in {"+", "-"} THEN Tail(line) ELSE line
    IN body = <<>> \/ ~IsDigit(body[1])

Scored == rrRet.done /\ rrRet.resp.kind = "content" /\ rrRet.resp.text # <<>>

Ranked == Scored /\ rrRet.err = "nil"

\* the ways the returned records can be matched to distinct snapshot positions
Placements ==
    {f \in [1..Len(rrRet.val) -> 1..Len(rrRet.memories)] :
        /\ \A a, b \in 1..Len(rrRet.val) : a # b => f[a] # f[b]
        /\ \A k \in 1..Len(rrRet.val) : rrRet.val[k] = rrRet.memories[f[k]]}

\* C21: RetrieveRelevantMemories returns records of the snapshot, each at most
\* once, in non-increasing score order, and no record it leaves out has a
\* higher score than one it returns; with 2 records, scores 8 and 5 and
\* maxResults 1 the result is the first record.
C21_RankedByScore ==
    Ranked =>
        /\ \E f \in Placements :
              /\ \A k \in 1..(Len(rrRet.val) - 1) :
                    rrRet.scores[f[k]] >= rrRet.scores[f[k + 1]]
              /\ \A j \in 1..Len(rrRet.memories) :
                    (\A k \in 1..Len(rrRet.val) : f[k] # j) =>
                        \A k \in 1..Len(rrRet.val) : rrRet.scores[j] <= rrRet.scores[f[k]]
        /\ (Len(rrRet.memories) = 2 /\ rrRet.scores = <<8, 5>> /\ rrRet.maxResults = 1)
              => rrRet.val = <<rrRet.memories[1]>>

\* the second record scored higher than the first and is the one returned
C21_Witness ==
    /\ Ranked /\ Len(rrRet.memories) = 2 /\ rrRet.maxResults = 1
    /\ rrRet.scores[2] > rrRet.scores[1]
    /\ rrRet.val = <<rrRet.memories[2]>>

\* C22: records with equal scores appear in the result in store order, and a
\* cut through a group of equal scores keeps the earlier-stored ones: the
\* result is the snapshot sorted by descending score with ties held in place.
C22_TiesStable ==
    Ranked =>
        \E f \in Placements :
            /\ \A a, b \in 1..Len(rrRet.val) :
                  (a < b /\ rrRet.scores[f[a]] = rrRet.scores[f[b]]) => f[a] < f[b]
            /\ \A j \in 1..Len(rrRet.memories) :
                  (\A k \in 1..Len(rrRet.val) : f[k] # j) =>
                      \A k \in 1..Len(rrRet.val) :
                          rrRet.scores[j] = rrRet.scores[f[k]] => f[k] < j

\* C23: with n >= 1 records and a successful scoring call the result holds
\* min(n, maxResults) records when maxResults > 0 and n records otherwise.
C23_ResultCount ==
    (Ranked /\ Len(rrRet.memories) >= 1) =>
        Len(rrRet.val) = IF rrRet.maxResults > 0
                         THEN Min(Len(rrRet.memories), rrRet.maxResults)
                         ELSE Len(rrRet.memories)

\* maxResults above the number of records, and maxResults below zero
C23_Witness ==
    /\ Ranked /\ Len(rrRet.memories) >= 2
    /\ \/ rrRet.maxResults > 0 /\ rrRet.maxResults < Len(rrRet.memories)
       \/ rrRet.maxResults < 0

\* C24: RetrieveRelevantMemories returns an error, and then no record at all,
\* exactly when the store fetch failed, the completion call returned an error,
\* or the response was absent, without choices or with an empty text.
C24_HardFailures ==
    rrRet.done =>
        /\ rrRet.err # "nil" <=>
              \/ ~rrRet.fetched
              \/ rrRet.resp.kind \in {"error", "nil", "no choices"}
              \/ rrRet.resp.kind = "content" /\ rrRet.resp.text = <<>>
        /\ rrRet.err # "nil" => rrRet.val = <<>>

\* a response with an empty text has ended a call over a non-empty snapshot
C24_Witness ==
    /\ rrRet.done /\ rrRet.memories # <<>>
    /\ rrRet.resp.kind = "content" /\ rrRet.resp.text = <<>>
    /\ rrRet.err # "nil"

\* C25: when the caller's context is cancelled during the completion call,
\* with a capability that honours cancellation the call does not wait on: its
\* return is enabled, and it returns an error and no records.
C25_CancellationReturns ==
    /\ (rrPc = "GenerateContent" /\ rrFrame.cancelled) => ENABLED RetrieveRelevantRespond
    /\ (rrRet.done /\ rrRet.cancelled) => (rrRet.err # "nil" /\ rrRet.val = <<>>)

\* a call cancelled during its completion call has returned
C25_Witness == rrRet.done /\ rrRet.cancelled /\ Len(rrRet.sent) = 1

\* the blocks of the document that split at line ends into fewer than 6 parts
ShortBlocks == {i \in 1..Len(doc) : doc[i].kind \in {"3 lines", "1 line"}}

IsTradeComplete == trigger.kind = TriggerTypeTradeComplete

IsManual == trigger.kind = TriggerTypeManual

\* C27: the trade-complete and the manual trigger are stateless: every
\* ShouldTrigger evaluation returns true, for every data argument and after any
\* earlier calls, for the manual trigger also when its prompt is empty; and
\* GetTriggerType returns the fixed label of the variant (trade_complete,
\* periodic, manual).
C27_StatelessTriggers ==
    /\ (IsTradeComplete \/ IsManual) =>
           /\ \A i \in 1..Len(evals) : evals[i].fired
           /\ trigger \in {NewTradeCompleteTrigger} \cup {NewManualTrigger(q) : q \in Prompts}
    /\ tret.op = "GetTriggerType" =>
           /\ tret.err = "nil"
           /\ IsTradeComplete => tret.val = <<"trade_complete">>
           /\ IsPeriodic => tret.val = <<"periodic">>
           /\ IsManual => tret.val = <<"manual">>

\* a manual trigger with an empty prompt evaluated as often as the bound allows,
\* with and without data, GetTriggerType called last
C27_Witness ==
    /\ IsManual /\ trigger.prompt = <<>>
    /\ Len(evals) = MaxEvals
    /\ \E i, j \in 1..Len(evals) : evals[i].data = NoData /\ evals[j].data # NoData
    /\ \A i \in 1..Len(evals) : evals[i].fired
    /\ tret.op = "GetTriggerType"

\* C28: the periodic trigger has no terminal state: while time keeps advancing
\* and the owner keeps evaluating it, one evaluation after the other,
\* ShouldTrigger returns true infinitely often, so after every true evaluation
\* the trigger waits again and a later evaluation returns true.
C28_FiresInfinitelyOften == []<><<PeriodicShouldTriggerReset(Owner)>>_vars

\* an evaluation returned true, a later one false, a still later one true
C28_Witness ==
    /\ IsPeriodic
    /\ \E i, j, k \in 1..Len(evals) :
          /\ i < j /\ j < k
          /\ evals[i].fired /\ ~evals[j].fired /\ evals[k].fired
          /\ evals[j].last = evals[i].now
          /\ evals[k].now - evals[i].now >= trigger.interval

\* C29: the periodic trigger has no mutual exclusion of its own: with two
\* callers evaluating it at once, no step of one evaluation waits for the
\* other, the read of lastTime and its reset are separate steps, and a caller
\* that reads lastTime while the other has found the interval elapsed and has
\* not yet reset it finds the same interval elapsed too; every evaluation that
\* returns true has observed an elapsed time of at least the interval.
C29_NoMutualExclusion ==
    /\ \A i \in 1..Len(evals) :
          evals[i].fired => evals[i].now - evals[i].last >= trigger.interval
    /\ \A c \in Callers :
          /\ tpc[c] = "compare" => ENABLED PeriodicShouldTriggerCompare(c)
          /\ tpc[c] = "reset" => ENABLED PeriodicShouldTriggerReset(c)
    /\ \A c, d \in Callers :
          (/\ c # d /\ tpc[c] = "reset" /\ tpc[d] = "compare"
           /\ trigger.lastTime = tframe[c].last
           /\ tframe[d].now - trigger.lastTime >= trigger.interval)
          => ENABLED (/\ PeriodicShouldTriggerCompare(d)
                      /\ tpc'[c] = "reset" /\ tpc'[d] = "reset"
                      /\ tframe'[d].last = tframe[c].last)

\* both callers have returned true for the same elapsed window: each observed
\* the same lastTime, at least the interval before the time it read
C29_Witness ==
    /\ IsPeriodic
    /\ \E i, j \in 1..Len(evals) :
          /\ evals[i].caller # evals[j].caller
          /\ evals[i].fired /\ evals[j].fired
          /\ evals[i].last = evals[j].last
          /\ evals[i].now - evals[i].last >= trigger.interval
          /\ evals[j].now - evals[j].last >= trigger.interval

Occurrences(mems, id) == Cardinality({i \in 1..Len(mems) : mems[i].ID = id})

AddedBy(p) == ret[p].op = "AddMemory" /\ ret[p].err = "nil"

\* C30: no update is lost under concurrent adds: with AddMemory calls issued
\* concurrently on one initialized store whose file writes all succeed, every
\* record an AddMemory call has made is in the collection exactly once, each
\* call leaves the collection it found with its record appended, and once all
\* calls have returned the artifact is the serialization of exactly the
\* collection's records in the collection's order.
C30_NoLostUpdate ==
    /\ \A k \in 1..uuids : Occurrences(memories, NewUUID(k)) = 1
    /\ \A p \in Procs :
          AddedBy(p) =>
              /\ ret[p].post = Append(ret[p].pre, ret[p].memory)
              /\ ret[p].val = <<ret[p].memory>>
              /\ Occurrences(memories, ret[p].memory.ID) = 1
              /\ \A i \in 1..Len(ret[p].post) : memories[i] = ret[p].post[i]
    /\ ((\A p \in Procs : pc[p] = "idle") /\ (\E p \in Procs : AddedBy(p)))
          => fs.data = generateMemoriesMarkdown(DerefAll(heap, memories))

\* both callers have added a record, as many calls as the bound allows have
\* returned, and the collection holds a record of each caller
C30_Witness ==
    /\ \A p \in Procs : pc[p] = "idle" /\ AddedBy(p)
    /\ calls = MaxCalls
    /\ Len(memories) >= 3
    /\ \E i, j \in 1..Len(memories) :
          i < j /\ memories[i].ID = ret[1].memory.ID /\ memories[j].ID = ret[2].memory.ID

PrefixOf(s, t) == Len(s) <= Len(t) /\ SubSeq(t, 1, Len(s)) = s

WroteArtifact(p) == ret[p].op \in {"AddMemory", "SaveMemories"} /\ ret[p].err = "nil"

\* a step of AddMemory that appends one record at the end
AppendsOne ==
    /\ \E p \in Procs : pc[p] = "idle" /\ pc'[p] = "saveMemoriesToFile@AddMemory"
    /\ Len(memories') = Len(memories) + 1
    /\ PrefixOf(memories, memories')

\* C31: once Initialize has succeeded the collection is append-only: a step
\* changes it only by AddMemory appending one record at the end, no step of a
\* store operation removes, reorders or modifies a record it holds, and the
\* records a call has successfully written to the artifact stay a prefix of the
\* collection.
C31_AppendOnly ==
    /\ [](\A p \in Procs : (initialized /\ WroteArtifact(p)) => PrefixOf(ret[p].post, memories))
    /\ [][initialized =>
            /\ memories' = memories \/ AppendsOne
            /\ mutations' = mutations =>
                  PrefixOf(DerefAll(heap, memories), DerefAll(heap', memories'))]_vars

\* a call has written two records to the artifact, and the collection has since
\* grown by a record the artifact does not hold
C31_Witness ==
    /\ initialized
    /\ \E p \in Procs :
          /\ WroteArtifact(p) /\ Len(ret[p].post) >= 2
          /\ Len(memories) > Len(ret[p].post)
          /\ fs.data = ret[p].data
          /\ fs.data # generateMemoriesMarkdown(DerefAll(heap, memories))
    /\ \A p \in Procs : pc[p] = "idle"

\* C32: a store on which Initialize has not succeeded never writes the
\* artifact: no step taken while the store is uninitialized, other than the
\* one by which Initialize succeeds, changes the artifact or creates it; so
\* SaveMemories on a new store leaves an existing artifact's records intact.
C32_UninitializedNeverWrites ==
    [][(~initialized /\ ~initialized') => (fs'.file = fs.file /\ fs'.data = fs.data)]_vars

InitializeFailed(r) == r.op = "Initialize" /\ r.err # "nil"

\* C33: a failing Initialize (the directory cannot be created, the artifact
\* cannot be read, or the initial empty artifact cannot be written) returns
\* its error and leaves the store uninitialized and unlocked, so that
\* AddMemory, GetAllMemories and RetrieveMemories keep returning the
\* not-initialized error; the call goes on to its return from every point,
\* also while it writes the initial artifact.
C33_InitializeFailure ==
    \A p \in Procs :
        /\ (frame[p].op = "Initialize" /\ frame[p].nested) =>
              ENABLED (SaveMemoriesLock(p) \/ SaveMemoriesSave(p))
        /\ InitializeFailed(ret[p]) =>
              /\ pc[p] = "idle" /\ p \notin mutex.writers
              /\ ~ret[p].wasInit /\ ret[p].post = ret[p].pre
        /\ (ret[p].op \in {"AddMemory"} \cup ReadOps /\ ~ret[p].wasInit)
              => ret[p].err = ErrNotInitialized


\* a step of RetrieveRelevantMemories
RetrieverSteps == rrPc' # rrPc \/ rrRet' # rrRet \/ rrFrame' # rrFrame

\* C34: RetrieveRelevantMemories ranks the snapshot it fetched before the
\* completion call: whatever the store holds when the call returns, there are
\* as many scores as records in the snapshot, the i-th score belonging to the
\* i-th record of the snapshot, and the result consists of records of the
\* snapshot in an order of non-increasing score; and no step of the retrieval
\* changes the store's collection or the artifact.
C34_RanksItsSnapshot ==
    /\ [](Ranked =>
            /\ Len(rrRet.scores) = Len(rrRet.memories)
            /\ rrRet.scores = parseScores(rrRet.resp.text, Len(rrRet.memories))
            /\ Len(rrRet.val) <= Len(rrRet.memories)
            /\ \E f \in Placements :
                  \A k \in 1..(Len(rrRet.val) - 1) :
                      rrRet.scores[f[k]] >= rrRet.scores[f[k + 1]])
    /\ [][RetrieverSteps =>
            /\ memories' = memories /\ fs' = fs /\ heap' = heap
            /\ initialized' = initialized /\ uuids' = uuids]_vars

\* an AddMemory completed while the completion call was in flight: at the
\* return the store held one record more than the snapshot, saved to the
\* artifact, and the result is the whole snapshot
C34_Witness ==
    /\ Ranked /\ rrRet.maxResults <= 0
    /\ Len(rrRet.memories) >= 1
    /\ Len(rrRet.current) = Len(rrRet.memories) + 1
    /\ Len(rrRet.val) = Len(rrRet.memories)
    /\ \E p \in Procs : AddedBy(p) /\ ret[p].pre = rrRet.memories
                          /\ ret[p].post = rrRet.current

\* the record block i of an edited document has given
ParsedBlock(i) == parseRet.whole[i]

FreshId(i) ==
    /\ ParsedBlock(i).ID \notin {<<>>, Saved1.ID}
    /\ \A j \in 1..Len(parseRet.whole) : j # i => parseRet.whole[j].ID # ParsedBlock(i).ID

MarkerNumbers(text) ==
    LET sections == Split(text, SectionMarker)
    IN [k \in 1..(Len(sections) - 1) |-> Split(sections[k + 1], NL)[1]]

\* C37: block ordinals are cosmetic: a document parses to the same records in
\* the same order whatever numbers its block markers carry, and the
\* serialization of the records numbers the blocks 1..n by position, whatever
\* the identifiers.
C37_OrdinalsCosmetic ==
    parseRet.done =>
        /\ parseRet.whole = parseRet.others
        /\ MarkerNumbers(parseRet.saved) = [k \in 1..Len(parseRet.whole) |-> Itoa(k)]

\* the markers of a document carried the number 7 twice; parsed and
\* serialized again, they carry 1 and 2
C37_Witness ==
    /\ parseRet.done /\ Len(doc) = 2
    /\ \A i \in 1..2 : doc[i].ord = "7"
    /\ MarkerNumbers(DocumentText(doc)) = <<<<"7">>, <<"7">>>>
    /\ MarkerNumbers(parseRet.saved) = <<<<"1">>, <<"2">>>>
    /\ parseRet.whole[1].ID = parseRet.whole[2].ID

OrdersOf(kind) == {i \in 1..Len(orders) : orders[i].kind = kind}

\* C38: HandleCommand for open_long_position or open_short_position: with a
\* position that is not dust and lies in the direction of the signal it
\* returns an error and no order is submitted; with one in the opposite
\* direction the close order is submitted before any open order, and when the
\* close fails no open order is submitted; without a kline window it returns
\* an error and nothing is submitted.
C38_EffectsOrdered ==
    LET opening == IF exPc = "idle" THEN exRet.cmd \in OpenCommands
                   ELSE exFrame.cmd \in OpenCommands
        signal == cmdToSide(IF exPc = "idle" THEN exRet.cmd ELSE exFrame.cmd)
        same == \/ signal = SideTypeBuy /\ ent.side = "long"
                \/ signal = SideTypeSell /\ ent.side = "short"
        against == \/ signal = SideTypeBuy /\ ent.side = "short"
                   \/ signal = SideTypeSell /\ ent.side = "long"
    IN opening =>
          /\ (~ent.dust /\ same) =>
                /\ orders = <<>>
                /\ exRet.done /\ exRet.err # "nil"
          /\ (~ent.dust /\ against) =>
                /\ OrdersOf("open") # {} =>
                      /\ orders[1].kind = "close" /\ orders[1].result = "accepted"
                      /\ \A i \in 2..Len(orders) : orders[i].kind = "open"
                /\ (exRet.done /\ exRet.err = "close existing position error") =>
                      OrdersOf("open") = {}
                /\ (exRet.done /\ exRet.err = "nil") =>
                      /\ Len(orders) >= 2
                      /\ orders[Len(orders)].kind = "open"
                      /\ orders[Len(orders)].result = "accepted"
          /\ ~ent.kline => (orders = <<>> /\ exRet.done /\ exRet.err = "current kline nil")

\* a long position was closed and a short one opened at the second attempt
C38_Witness ==
    /\ exRet.done /\ exRet.cmd = "open_short_position" /\ exRet.err = "nil"
    /\ ent.side = "long" /\ ~ent.dust
    /\ Len(orders) = 3
    /\ orders[1].kind = "close" /\ orders[2].result = "Insufficient USDT"
    /\ orders[3].result = "accepted" /\ orders[3].quantity < orders[2].quantity

\* C39: OpenPosition always terminates, whatever the market's minimum
\* quantity, zero included: a HandleCommand call that has entered
\* OpenPosition returns.
C39_OpenPositionTerminates ==
    (exPc \in {"OpenPosition", "SubmitOrders"}) ~> exRet.done

\* the prompt of the periodic trigger without its fixed parts
IntervalText == SubSeq(tret.val, 2, Len(tret.val) - 1)

PromptGiven == tret.op = "GetReflectionPrompt" /\ trigger.kind = TriggerTypePeriodic

\* C40: the interval text of the periodic prompt, with days the whole days of
\* the interval, hours its whole hours mod 24 and minutes its whole minutes
\* mod 60: days, and hours when hours > 0, if days > 0; else hours, and
\* minutes when minutes > 0, if hours > 0; else minutes. So 24h is 1 day and
\* 3h20m is 3 hours 20 minutes, minutes are dropped whenever days > 0, and
\* an interval under one minute is 0 minutes.
C40_IntervalText ==
    PromptGiven =>
        LET whole == trigger.interval
            days == whole \div (24 * 60)
            hours == (whole \div 60) % 24
            minutes == whole % 60
            shown(n, unit) == Itoa(n) \o <<unit>>
        IN /\ tret.err = "nil"
           /\ tret.val[1] = PeriodicTemplateHead
           /\ tret.val[Len(tret.val)] = PeriodicTemplateTail
           /\ (days > 0 /\ hours > 0) =>
                 IntervalText = shown(days, UnitDays) \o shown(hours, UnitHours)
           /\ (days > 0 /\ hours = 0) => IntervalText = shown(days, UnitDays)
           /\ (days = 0 /\ hours > 0 /\ minutes > 0) =>
                 IntervalText = shown(hours, UnitHours) \o shown(minutes, UnitMinutes)
           /\ (days = 0 /\ hours > 0 /\ minutes = 0) => IntervalText = shown(hours, UnitHours)
           /\ (days = 0 /\ hours = 0) => IntervalText = shown(minutes, UnitMinutes)
           /\ whole = 24 * 60 => IntervalText = <<"1", UnitDays>>
           /\ whole = 3 * 60 + 20 => IntervalText = <<"3", UnitHours, "2", "0", UnitMinutes>>
           /\ days > 0 => \A i \in 1..Len(IntervalText) : IntervalText[i] # UnitMinutes
           /\ whole = 0 => IntervalText = <<"0", UnitMinutes>>

\* the prompt for an interval of one day and 59 minutes shows the day alone
C40_Witness ==
    /\ PromptGiven
    /\ trigger.interval = 24 * 60 + 59
    /\ IntervalText = <<"1", UnitDays>>
====
